---------------------------- MODULE Spec2Model ----------------------------
(***************************************************************************)
(* Model of schedulegenie's date/time resolver (src/lib/dateUtils.ts), of  *)
(* the calendar export handler (src/app/api/export-schedule/route.ts), of  *)
(* the chat rate limit, of the task routes working on one user's stored    *)
(* schedule, and of the dashboard's pending marks.                         *)
(*                                                                         *)
(* A JavaScript string is a sequence of one-character strings, so that     *)
(* trimming, lower-casing, regular expressions and date-fns' format        *)
(* parsing are computed character by character.  A Date is an instant:    *)
(* minutes since the Unix epoch (UTC) plus the milliseconds inside the     *)
(* minute.  Local fields are read through the server's timezone offset    *)
(* `tz` (minutes east of UTC).  One zone has a day on which its clocks     *)
(* were put forward by an hour; the other zones keep one offset.           *)
(***************************************************************************)
EXTENDS Integers, Sequences, FiniteSets, TLC

VARIABLES
    tz,             \* server timezone offset, minutes east of UTC
    now,            \* the system clock, what `new Date()` reads
    referenceDate,  \* the reference date tasks are resolved against
    task,           \* resolver: the task handed to parseTaskDateTime
    specificDate,   \* resolver: parseTaskDateTime's local, the resolved day
    result,         \* resolver: outcome of the last call
    calls,          \* resolver: number of calls made on this input
    session,        \* export: whether the request carries a user session
    schedule,       \* export: the user's document in the schedules collection
    xpc,            \* export: position of GET /api/export-schedule
    idx,            \* export: index of the next task of the forEach
    events,         \* export: the events collected for the serializer
    ics,            \* export: what ics.createEvents answered
    status,         \* export: HTTP status of the response (0: none yet)
    payload,        \* export: the events of the calendar sent back
    fpc,            \* formatter: position of one call of formatForICS
    icsDate,        \* formatter: the argument of formatForICS
    icsFields,      \* formatter: what formatForICS returned
    clock,          \* chat: Date.now() of the server, in minutes
    user,           \* chat: the user's document in the users collection
    chat,           \* chat: the user's POST /api/chat requests
    asked,          \* chat: number of requests made so far
    passed,         \* chat: the times at which a request passed the rate check
    remaining,      \* chat: what GET /api/chat-status answered last
    doc,            \* store: the user's document in the schedules collection
    api,            \* store: the user's requests on the task list
    uuid,           \* store: number of task ids crypto.randomUUID() handed out
    allTasks,            \* dashboard: the local task list
    pendingTaskActions,  \* dashboard: the action in flight for each task id
    isGenerating,        \* dashboard: a schedule is being generated
    isLoadingSchedule,   \* dashboard: the saved schedule is being fetched
    editingTask,         \* dashboard: the id of the task in the edit modal, or 0
    inflight,            \* dashboard: the requests sent and not yet answered
    sent                 \* dashboard: number of requests sent

rvars == <<task, specificDate, result, calls>>
xvars == <<session, schedule, xpc, idx, events, ics, status, payload>>
fvars == <<fpc, icsDate, icsFields>>
cvars == <<clock, user, chat, asked, passed, remaining>>
svars == <<doc, api, uuid>>
dvars == <<allTasks, pendingTaskActions, isGenerating, isLoadingSchedule,
           editingTask, inflight, sent>>
vars == <<tz, now, referenceDate, rvars, xvars, fvars, cvars, svars, dvars>>

----------------------------------------------------------------------------
(* JavaScript values                                                       *)

Str(cs) == [type |-> "string", chars |-> cs, n |-> 0]
Undefined == [type |-> "undefined", chars |-> <<>>, n |-> 0]
JsNull == [type |-> "null", chars |-> <<>>, n |-> 0]
Num(k) == [type |-> "number", chars |-> <<>>, n |-> k]

IsString(v) == v.type = "string"

\* `!v` of JavaScript for the values a task field can hold
Falsy(v) ==
    \/ v.type \in {"undefined", "null"}
    \/ v.type = "string" /\ v.chars = <<>>
    \/ v.type = "number" /\ v.n = 0

Date(t, sub) == [kind |-> "date", t |-> t, sub |-> sub]
NullDate == [kind |-> "null", t |-> 0, sub |-> 0]
InvalidDate == [kind |-> "invalid", t |-> 0, sub |-> 0]

isValid(d) == d.kind = "date"

\* `!!d` for a Date | null: every Date object, even an invalid one, is truthy
Truthy(d) == d.kind # "null"

\* d1 > d2 on Date objects compares the time values; NaN compares false
DateGT(d1, d2) ==
    /\ isValid(d1)
    /\ isValid(d2)
    /\ \/ d1.t > d2.t
       \/ d1.t = d2.t /\ d1.sub > d2.sub

----------------------------------------------------------------------------
(* Characters                                                              *)

Digits == <<"0", "1", "2", "3", "4", "5", "6", "7", "8", "9">>

IsDigit(c) == \E i \in 1..10 : Digits[i] = c
IsSpace(c) == c \in {" ", "\t", "\n"}

LowerChar(c) ==
    LET Upper == <<"A", "B", "C", "D", "E", "F", "G", "H", "I", "J", "K", "L", "M",
                   "N", "O", "P", "Q", "R", "S", "T", "U", "V", "W", "X", "Y", "Z">>
        Lower == <<"a", "b", "c", "d", "e", "f", "g", "h", "i", "j", "k", "l", "m",
                   "n", "o", "p", "q", "r", "s", "t", "u", "v", "w", "x", "y", "z">>
    IN  IF \E i \in 1..26 : Upper[i] = c
        THEN Lower[CHOOSE i \in 1..26 : Upper[i] = c]
        ELSE c

toLowerCase(s) == [i \in 1..Len(s) |-> LowerChar(s[i])]

Drop(s, k) == SubSeq(s, k + 1, Len(s))
Take(s, k) == SubSeq(s, 1, k)

RECURSIVE TrimLeft(_)
TrimLeft(s) ==
    IF s # <<>> /\ IsSpace(s[1]) THEN TrimLeft(Tail(s)) ELSE s

RECURSIVE TrimRight(_)
TrimRight(s) ==
    IF s # <<>> /\ IsSpace(s[Len(s)]) THEN TrimRight(Take(s, Len(s) - 1)) ELSE s

trim(s) == TrimRight(TrimLeft(s))

\* s starts with p, compared case-insensitively (the /i flag)
StartsWithI(s, p) ==
    /\ Len(s) >= Len(p)
    /\ toLowerCase(Take(s, Len(p))) = p

StartsWith(s, p) ==
    /\ Len(s) >= Len(p)
    /\ Take(s, Len(p)) = p

\* /\S/ : something other than whitespace remains
notWhitespace(s) == \E i \in 1..Len(s) : ~IsSpace(s[i])

----------------------------------------------------------------------------
(* Calendar arithmetic of the Date object (proleptic Gregorian)            *)

DaysInMonth(y, m) ==
    IF m = 2
    THEN (IF (y % 4 = 0 /\ y % 100 # 0) \/ y % 400 = 0 THEN 29 ELSE 28)
    ELSE IF m \in {4, 6, 9, 11} THEN 30 ELSE 31

\* days from 1970-01-01 to y-m-d (m in 1..12)
DaysFromCivil(y, m, d) ==
    LET DaysOfEra(yoe, doy) == yoe * 365 + yoe \div 4 - yoe \div 100 + doy
        DaysShifted(yy, mp) ==
            (yy \div 400) * 146097
            + DaysOfEra(yy % 400, (153 * mp + 2) \div 5 + d - 1) - 719468
    IN  DaysShifted(IF m <= 2 THEN y - 1 ELSE y, IF m > 2 THEN m - 3 ELSE m + 9)

\* [y, m, d] of a day number counted from 1970-01-01
CivilFromDays(z0) ==
    LET YearOfEra(doe) ==
            (doe - doe \div 1460 + doe \div 36524 - doe \div 146096) \div 365
        DayOfYear(doe, yoe) == doe - (365 * yoe + yoe \div 4 - yoe \div 100)
        CivilOf(y0, m, d) == [y |-> y0 + (IF m <= 2 THEN 1 ELSE 0), m |-> m, d |-> d]
        CivilMonth(y0, doy, mp) ==
            CivilOf(y0, IF mp < 10 THEN mp + 3 ELSE mp - 9,
                    doy - (153 * mp + 2) \div 5 + 1)
        CivilDay(y0, doy) == CivilMonth(y0, doy, (5 * doy + 2) \div 153)
        CivilYear(era, doe, yoe) == CivilDay(yoe + era * 400, DayOfYear(doe, yoe))
        CivilEra(era, doe) == CivilYear(era, doe, YearOfEra(doe))
        CivilShifted(z) == CivilEra(z \div 146097, z % 146097)
    IN  CivilShifted(z0 + 719468)

MinutesPerDay == 1440

\* The zone at -300 put its clocks forward one hour on the day Gap.day, from
\* 02:00 to 03:00: it is at `tz` from then on and was at tz - 60 before.
Gap == [zone |-> -300, day |-> DaysFromCivil(2023, 3, 12)]

\* the offset in force at the UTC minute t
OffsetAt(t) ==
    IF tz = Gap.zone /\ t < Gap.day * MinutesPerDay + 180 - tz THEN tz - 60 ELSE tz

\* the UTC minute of the local reading lm; a reading inside the skipped hour
\* is taken with the offset before the transition, which moves it an hour on
FromLocal(lm) ==
    IF tz = Gap.zone /\ lm < Gap.day * MinutesPerDay + 180 THEN lm - (tz - 60)
    ELSE lm - tz

\* local wall-clock readings of an instant
LocalMinutes(d) == d.t + OffsetAt(d.t)
LocalDay(d) == LocalMinutes(d) \div MinutesPerDay
getHours(d) == (LocalMinutes(d) % MinutesPerDay) \div 60
getMinutes(d) == LocalMinutes(d) % 60
getFullYear(d) == CivilFromDays(LocalDay(d)).y
getMonth(d) == CivilFromDays(LocalDay(d)).m - 1

\* the instant whose local reading is day number `dn` at hh:mm:00.000
LocalDateTime(dn, hh, mm) == Date(FromLocal(dn * MinutesPerDay + hh * 60 + mm), 0)

\* Date.prototype.setHours(h) etc. with one argument: the other fields stay
setHours(d, h) ==
    Date(FromLocal(LocalDay(d) * MinutesPerDay + h * 60 + getMinutes(d)), d.sub)
setMinutes(d, m) ==
    Date(FromLocal(LocalDay(d) * MinutesPerDay + getHours(d) * 60 + m), d.sub)
setSeconds(d, s) == Date(d.t, s * 1000 + (d.sub % 1000))
setMilliseconds(d, ms) == Date(d.t, (d.sub \div 1000) * 1000 + ms)

\* date-fns addDays / addHours: a new Date, the argument is not changed
addDays(d, k) ==
    IF isValid(d) THEN Date(FromLocal(LocalMinutes(d) + k * MinutesPerDay), d.sub)
    ELSE InvalidDate
addHours(d, k) ==
    IF isValid(d) THEN Date(d.t + k * 60, d.sub) ELSE InvalidDate

----------------------------------------------------------------------------
(* date-fns `parse(dateString, formatString, referenceDate)`, en-US locale *)
(* A format string is held as its token list; a token is either a parser   *)
(* token (a unit) or a literal that the input must carry verbatim.         *)
(* Intermediate values are handed on as operator arguments, so that each   *)
(* is written, and evaluated, once.                                        *)

Fail == [ok |-> FALSE, val |-> 0, rest |-> <<>>]
Got(v, r) == [ok |-> TRUE, val |-> v, rest |-> r]

RECURSIVE NumVal(_)
NumVal(s) ==
    IF s = <<>> THEN 0
    ELSE NumVal(Take(s, Len(s) - 1)) * 10
         + (CHOOSE i \in 1..10 : Digits[i] = s[Len(s)]) - 1

RECURSIVE CountDigits(_, _)
CountDigits(s, max) ==
    IF max = 0 \/ s = <<>> \/ ~IsDigit(s[1]) THEN 0
    ELSE 1 + CountDigits(Tail(s), max - 1)

\* parseNDigits(n, s): /^\d{1,n}/
ReadDigits(s, k) == IF k = 0 THEN Fail ELSE Got(NumVal(Take(s, k)), Drop(s, k))

\* numeric patterns of the shape /^(A[B]|[C]?\d)/
parseTwoOrOne(s, a, bs, cs) ==
    ReadDigits(s, IF Len(s) >= 2 /\ s[1] = a /\ s[2] \in bs THEN 2
                  ELSE IF Len(s) >= 2 /\ s[1] \in cs /\ IsDigit(s[2]) THEN 2
                  ELSE IF Len(s) >= 1 /\ IsDigit(s[1]) THEN 1
                  ELSE 0)

MonthsWide == <<<<"j", "a", "n", "u", "a", "r", "y">>, <<"f", "e", "b", "r", "u", "a", "r", "y">>, <<"m", "a", "r", "c", "h">>, <<"a", "p", "r", "i", "l">>, <<"m", "a", "y">>, <<"j", "u", "n", "e">>,
                <<"j", "u", "l", "y">>, <<"a", "u", "g", "u", "s", "t">>, <<"s", "e", "p", "t", "e", "m", "b", "e", "r">>, <<"o", "c", "t", "o", "b", "e", "r">>, <<"n", "o", "v", "e", "m", "b", "e", "r">>,
                <<"d", "e", "c", "e", "m", "b", "e", "r">>>>

\* the months whose name (cut to `width` letters when width > 0) starts s
MonthsStarting(s, width) ==
    {i \in 1..12 :
        StartsWithI(s, IF width > 0 THEN Take(MonthsWide[i], width) ELSE MonthsWide[i])}

GotMonth(s, is, width) ==
    IF is = {} THEN Fail
    ELSE Got((CHOOSE i \in is : TRUE) - 1,
             Drop(s, IF width > 0 THEN width ELSE Len(MonthsWide[CHOOSE i \in is : TRUE])))

\* narrow month letters, each with the first month whose pattern it matches
matchMonthNarrow(s) ==
    LET NarrowMonth(c) ==
            CASE c = "j" -> 0 [] c = "f" -> 1 [] c = "m" -> 2 [] c = "a" -> 3
              [] c = "s" -> 8 [] c = "o" -> 9 [] c = "n" -> 10 [] c = "d" -> 11
              [] OTHER -> -1
        GotNarrowMonth(v) == IF v >= 0 THEN Got(v, Tail(s)) ELSE Fail
    IN  IF s = <<>> THEN Fail ELSE GotNarrowMonth(NarrowMonth(LowerChar(s[1])))

\* a || b on match results
OrElse(a, b) == IF a.ok THEN a ELSE b

\* day period, pattern `any`: /^([ap]\.?\s?m\.?|midnight|noon|...)/i; the value is
\* the hour the period stands for (dayPeriodEnumToHours)
\* [ap]\.?\s?m\.? : p is where the `m` has to be, after an optional dot and
\* an optional blank
matchMeridiem(s, l) ==
    LET AfterDot(x) == IF Len(x) >= 2 /\ x[2] = "." THEN 3 ELSE 2
        AfterBlank(x, p) == IF Len(x) >= p /\ IsSpace(x[p]) THEN p + 1 ELSE p
        MeridiemAt(x, p) ==
            IF x # <<>> /\ x[1] \in {"a", "p"} /\ Len(x) >= p /\ x[p] = "m"
            THEN Got(IF x[1] = "a" THEN 0 ELSE 12,
                     Drop(s, IF Len(x) >= p + 1 /\ x[p + 1] = "." THEN p + 1 ELSE p))
            ELSE Fail
    IN  MeridiemAt(l, AfterBlank(l, AfterDot(l)))

matchDayPeriodAny(s) ==
    OrElse(matchMeridiem(s, toLowerCase(s)),
           IF StartsWithI(s, <<"m", "i", "d", "n", "i", "g", "h", "t">>) THEN Got(0, Drop(s, 8))
           ELSE IF StartsWithI(s, <<"n", "o", "o", "n">>) THEN Got(12, Drop(s, 4))
           ELSE Fail)

\* day period, pattern `narrow`: /^(a|p|mi|n|...)/i
matchDayPeriodNarrow(s) ==
    IF StartsWithI(s, <<"a">>) THEN Got(0, Tail(s))
    ELSE IF StartsWithI(s, <<"p">>) THEN Got(12, Tail(s))
    ELSE IF StartsWithI(s, <<"m", "i">>) THEN Got(0, Drop(s, 2))
    ELSE IF StartsWithI(s, <<"n">>) THEN Got(12, Tail(s))
    ELSE Fail

\* the unit a parser token sets
Unit(tok) ==
    CASE tok = "yyyy" -> "y"
      [] tok \in {"MM", "MMMM", "MMM"} -> "M"
      [] tok \in {"dd", "d"} -> "d"
      [] tok = "a" -> "a"
      [] tok = "h" -> "h"
      [] tok \in {"HH", "H"} -> "H"
      [] tok = "mm" -> "m"

\* parser.parse(dateString, token, match): the value read and the rest;
\* the month parser hands on the month as a 0-based index (MinusOne)
ParseToken(tok, s) ==
    LET parseNDigits(n, x) == ReadDigits(x, CountDigits(x, n))
        hour12h(x) == parseTwoOrOne(x, "1", {"0", "1", "2"}, {"0"})
        hour23h(x) == parseTwoOrOne(x, "2", {"0", "1", "2", "3"}, {"0", "1"})
        datePattern(x) == parseTwoOrOne(x, "3", {"0", "1"}, {"0", "1", "2"})
        matchMonthWide(x) == GotMonth(x, MonthsStarting(x, 0), 0)
        matchMonthAbbreviated(x) == GotMonth(x, MonthsStarting(x, 3), 3)
        MinusOne(r) == IF r.ok THEN Got(r.val - 1, r.rest) ELSE Fail
    IN  CASE tok = "yyyy" -> parseNDigits(4, s)
          [] tok = "MM" -> MinusOne(parseNDigits(2, s))
          [] tok = "dd" -> parseNDigits(2, s)
          [] tok = "MMMM" -> OrElse(matchMonthWide(s),
                               OrElse(matchMonthAbbreviated(s), matchMonthNarrow(s)))
          [] tok = "MMM" -> OrElse(matchMonthAbbreviated(s), matchMonthNarrow(s))
          [] tok = "d" -> datePattern(s)
          [] tok = "a" -> OrElse(matchDayPeriodAny(s), matchDayPeriodNarrow(s))
          [] tok = "h" -> hour12h(s)
          [] tok = "HH" -> parseNDigits(2, s)
          [] tok = "H" -> hour23h(s)
          [] tok = "mm" -> parseNDigits(2, s)

NoUnits == [y |-> -1, M |-> -1, d |-> -1, a |-> -1, h |-> -1, H |-> -1, m |-> -1]

\* the token loop: every parser token must read a value, every literal must
\* be next in the input; what is left may only be whitespace
RECURSIVE Scan(_, _, _)
ScanRead(tok, toks, u, r) ==
    IF r.ok
    THEN Scan(toks, r.rest, [u EXCEPT ![Unit(tok)] = r.val])
    ELSE [ok |-> FALSE, units |-> u]

Scan(toks, s, u) ==
    IF toks = <<>>
    THEN [ok |-> ~notWhitespace(s), units |-> u]
    ELSE IF Head(toks) \in {"yyyy", "MM", "dd", "MMMM", "MMM", "d", "a", "h", "HH", "H",
                             "mm"}
         THEN ScanRead(Head(toks), Tail(toks), u, ParseToken(Head(toks), s))
         ELSE IF s # <<>> /\ s[1] = Head(toks)
              THEN Scan(Tail(toks), Tail(s), u)
              ELSE [ok |-> FALSE, units |-> u]

\* wall-clock fields of the date the setters work on
Fields(d) ==
    LET FieldsOf(c) ==
            [ok |-> TRUE, y |-> c.y, mo |-> c.m, d |-> c.d,
             hh |-> getHours(d), mi |-> getMinutes(d), sub |-> d.sub]
    IN  FieldsOf(CivilFromDays(LocalDay(d)))

\* the setters of the units read, applied to the fields of the reference date
ApplySetters(f0, u) ==
    LET Bad(f) == [f EXCEPT !.ok = FALSE]

        \* the setters, applied in descending priority (year, month, day of month,
        \* day period, hour, minute), each validated against the date built so far;
        \* a unit the format does not name (v < 0) sets nothing
        SetYear(f, v) ==
            IF ~f.ok \/ v < 0 THEN f
            ELSE IF v > 0
                 THEN [f EXCEPT !.y = v, !.mo = 1, !.d = 1, !.hh = 0, !.mi = 0, !.sub = 0]
                 ELSE Bad(f)

        SetMonth(f, v) ==
            IF ~f.ok \/ v < 0 THEN f
            ELSE IF v <= 11
                 THEN [f EXCEPT !.mo = v + 1, !.d = 1, !.hh = 0, !.mi = 0, !.sub = 0]
                 ELSE Bad(f)

        SetDate(f, v) ==
            IF ~f.ok \/ v < 0 THEN f
            ELSE IF v >= 1 /\ v <= DaysInMonth(f.y, f.mo)
                 THEN [f EXCEPT !.d = v, !.hh = 0, !.mi = 0, !.sub = 0]
                 ELSE Bad(f)

        SetDayPeriod(f, v) ==
            IF ~f.ok \/ v < 0 THEN f
            ELSE [f EXCEPT !.hh = v, !.mi = 0, !.sub = 0]

        \* Hour1to12Parser.set: the half of the day is the one the date is in
        SetHour12(f, v) ==
            IF ~f.ok \/ v < 0 THEN f
            ELSE IF v >= 1 /\ v <= 12
                 THEN [f EXCEPT !.hh = IF f.hh >= 12 /\ v < 12 THEN v + 12
                                       ELSE IF f.hh < 12 /\ v = 12 THEN 0
                                       ELSE v,
                                !.mi = 0, !.sub = 0]
                 ELSE Bad(f)

        SetHour23(f, v) ==
            IF ~f.ok \/ v < 0 THEN f
            ELSE IF v <= 23
                 THEN [f EXCEPT !.hh = v, !.mi = 0, !.sub = 0]
                 ELSE Bad(f)

        SetMinute(f, v) ==
            IF ~f.ok \/ v < 0 THEN f
            ELSE IF v <= 59
                 THEN [f EXCEPT !.mi = v, !.sub = 0]
                 ELSE Bad(f)
    IN  SetMinute(SetHour23(SetHour12(SetDayPeriod(SetDate(SetMonth(
            SetYear(f0, u.y), u.M), u.d), u.a), u.h), u.H), u.m)

\* the Date the fields stand for, read in the server's zone
DateOfFields(f) ==
    IF f.ok
    THEN Date(FromLocal(DaysFromCivil(f.y, f.mo, f.d) * MinutesPerDay + f.hh * 60 + f.mi),
              f.sub)
    ELSE InvalidDate

ParseScanned(sc, ref) ==
    IF sc.ok /\ isValid(ref)
    THEN DateOfFields(ApplySetters(Fields(ref), sc.units))
    ELSE InvalidDate

parse(dateString, toks, ref) == ParseScanned(Scan(toks, dateString, NoUnits), ref)

isMatch(dateString, toks) == isValid(parse(dateString, toks, now))

\* parseISO on a date-only string: local midnight of that calendar day, or
\* Invalid Date when the month or the day of the month does not exist
\* variant: the date-only string read as UTC midnight, as `new Date(s)` does
ISODateUTC(y, m, d) ==
    IF m >= 1 /\ m <= 12 /\ d >= 1 /\ d <= DaysInMonth(y, m)
    THEN Date(DaysFromCivil(y, m, d) * MinutesPerDay, 0)
    ELSE InvalidDate

ISODate(y, m, d) ==
    IF m >= 1 /\ m <= 12 /\ d >= 1 /\ d <= DaysInMonth(y, m)
    THEN LocalDateTime(DaysFromCivil(y, m, d), 0, 0)
    ELSE InvalidDate

parseISO(s) ==
    ISODate(NumVal(SubSeq(s, 1, 4)), NumVal(SubSeq(s, 6, 7)), NumVal(SubSeq(s, 9, 10)))

----------------------------------------------------------------------------
(* src/lib/dateUtils.ts                                                    *)

NoDate == [threw |-> FALSE, date |-> NullDate]
Found(d) == [threw |-> FALSE, date |-> d]

Fmt_MMMM_d == <<"MMMM", " ", "d">>
Fmt_MMM_d == <<"MMM", " ", "d">>

\* /^\d{4}-\d{2}-\d{2}$/.test(dayStr)
IsoShape(s) ==
    /\ Len(s) = 10
    /\ \A i \in {1, 2, 3, 4, 6, 7, 9, 10} : IsDigit(s[i])
    /\ s[5] = "-"
    /\ s[8] = "-"

\* `if (isValid(parsed)) return parsed`: NullDate stands for "no return"
IfValid(parsed) == IF isValid(parsed) THEN parsed ELSE NullDate

\* variant: the label read with `new Date(y, m - 1, d)` once it has the shape,
\* which carries a day the month does not have over into the next month
IsoStepRollover(dayStr) ==
    IF IsoShape(dayStr)
    THEN LocalDateTime(DaysFromCivil(NumVal(SubSeq(dayStr, 1, 4)),
                                     NumVal(SubSeq(dayStr, 6, 7)), 1)
                       + NumVal(SubSeq(dayStr, 9, 10)) - 1, 0, 0)
    ELSE NullDate

\* step 1: YYYY-MM-DD
IsoStep(dayStr) ==
    IF IsoShape(dayStr) /\ isMatch(dayStr, <<"yyyy", "-", "MM", "-", "dd">>)
    THEN IfValid(parseISO(dayStr))
    ELSE NullDate

\* step 2: relative terms
RelativeStep(lowerDayStr, today) ==
    IF lowerDayStr = <<"t", "o", "d", "a", "y">> THEN today
    ELSE IF lowerDayStr = <<"t", "o", "m", "o", "r", "r", "o", "w">> THEN addDays(today, 1)
    ELSE NullDate

\* dayNames.indexOf(lowerDayStr)
dayIndexOf(lowerDayStr) ==
    LET dayNames == <<<<"s", "u", "n", "d", "a", "y">>, <<"m", "o", "n", "d", "a", "y">>, <<"t", "u", "e", "s", "d", "a", "y">>, <<"w", "e", "d", "n", "e", "s", "d", "a", "y">>, <<"t", "h", "u", "r", "s", "d", "a", "y">>,
                      <<"f", "r", "i", "d", "a", "y">>, <<"s", "a", "t", "u", "r", "d", "a", "y">>>>
    IN  IF \E i \in 1..7 : dayNames[i] = lowerDayStr
        THEN (CHOOSE i \in 1..7 : dayNames[i] = lowerDayStr) - 1
        ELSE -1

\* variant: `<` for `<=`, so that the weekday of today resolves to today
NextOccurrenceOrToday(diff) == IF diff < 0 THEN diff + 7 ELSE diff

\* the next occurrence of the weekday, never today
NextOccurrence(diff) == IF diff <= 0 THEN diff + 7 ELSE diff

\* step 3: day names
WeekdayOf(dayIndex, today) ==
    LET getDay(d) == (LocalDay(d) + 4) % 7
        daysToAdd(todayIndex) == NextOccurrence(dayIndex - todayIndex)
    IN  IF dayIndex # -1
        THEN addDays(today, daysToAdd(getDay(today)))
        ELSE NullDate

WeekdayStep(lowerDayStr, today) == WeekdayOf(dayIndexOf(lowerDayStr), today)

\* the first of the two that is a return value
FirstDate(a, b) == IF Truthy(a) THEN a ELSE b

\* variant: the year taken from the system clock, `new Date()` for
\* `referenceDate`
MonthDayStepOnClock(dayStr, ref) ==
    FirstDate(IfValid(parse(dayStr, Fmt_MMMM_d, now)),
              IfValid(parse(dayStr, Fmt_MMM_d, now)))

\* step 4: month and day, the year taken from the reference date
MonthDayStep(dayStr, ref) ==
    FirstDate(IfValid(parse(dayStr, Fmt_MMMM_d, ref)),
              IfValid(parse(dayStr, Fmt_MMM_d, ref)))

\* the four steps in order, on the trimmed string and its lower-case form
DaySteps(dayStr, lowerDayStr, ref) ==
    FirstDate(IsoStep(dayStr),
      FirstDate(RelativeStep(lowerDayStr, ref),
        FirstDate(WeekdayStep(lowerDayStr, ref),
                  MonthDayStep(dayStr, ref))))

\* variant: the keywords and day names compared without lower-casing
TrimmedDayCaseSensitive(dayStr, ref) == DaySteps(dayStr, dayStr, ref)

TrimmedDay(dayStr, ref) == DaySteps(dayStr, toLowerCase(dayStr), ref)

parseDayString(dayArg, ref) ==
    IF ~IsString(dayArg)
    THEN [threw |-> TRUE, date |-> NullDate]  \* TypeError: dayStr.trim() on a value that has no trim method
    ELSE Found(TrimmedDay(trim(dayArg.chars), ref))

NoTimes == [threw |-> FALSE, start |-> NullDate, end |-> NullDate]
Times(s, e) == [threw |-> FALSE, start |-> s, end |-> e]
Threw == [threw |-> TRUE, start |-> NullDate, end |-> NullDate]

formats == << <<"h", ":", "mm", " ", "a">>,
              <<"h", "a">>,
              <<"HH", ":", "mm">>,
              <<"h", ":", "mm">>,
              <<"H", ":", "mm">> >>

\* variant: the UTC setters, setUTCHours and setUTCMinutes
finalDateUTC(date, parsedTime) ==
    Date((date.t \div MinutesPerDay) * MinutesPerDay
         + getHours(parsedTime) * 60 + getMinutes(parsedTime), 0)

\* variant: the seconds and milliseconds of `date` left as they are
finalDateKeepSeconds(date, parsedTime) ==
    setMinutes(setHours(date, getHours(parsedTime)), getMinutes(parsedTime))

\* the clone of `date` carrying the parsed hour and minute, seconds zeroed
finalDate(date, parsedTime) ==
    setMilliseconds(setSeconds(setMinutes(setHours(date, getHours(parsedTime)),
                                          getMinutes(parsedTime)), 0), 0)

\* the formats in order, each parsed against the clock; the first that
\* gives a valid time decides
RECURSIVE TryFormats(_, _, _)
TryParsed(parsedTime, timePart, date, i) ==
    LET TryFinal(final) ==
            IF isValid(final) THEN final ELSE TryFormats(timePart, date, i + 1)
    IN  IF isValid(parsedTime)
        THEN TryFinal(finalDate(date, parsedTime))
        ELSE TryFormats(timePart, date, i + 1)

TryFormats(timePart, date, i) ==
    IF i > Len(formats) THEN NullDate
    ELSE TryParsed(parse(timePart, formats[i], now), timePart, date, i)

\* the `start` of parseSingleTime's result (its `end` is always null)
parseSingleTime(timePart, date) == TryFormats(timePart, date, 1)

RECURSIVE WsRun(_)
WsRun(s) == IF s # <<>> /\ IsSpace(s[1]) THEN 1 + WsRun(Tail(s)) ELSE 0

NoNewline(s) == \A i \in 1..Len(s) : s[i] # "\n"

\* the position of the dash when the left group is the first k characters
DashAfter(s, k) == k + WsRun(Drop(s, k)) + 1

\* the dash is at p, and \s*(.+)$ can match what follows it
SplitsAt(s, k, p) ==
    LET RightMatches(after) ==
            \E w \in 0..WsRun(after) :
                Drop(after, w) # <<>> /\ NoNewline(Drop(after, w))
    IN  /\ NoNewline(Take(s, k))
        /\ p <= Len(s)
        /\ s[p] = "-"
        /\ RightMatches(Drop(s, p))

\* left lengths k for which timeStr.match(/^(.+?)\s*-\s*(.+)$/) can succeed
SplitPoints(s) == {k \in 1..Len(s) : SplitsAt(s, k, DashAfter(s, k))}

\* variant: a greedy left group, (.+) for (.+?), which splits at the last dash
Longest(ks) == CHOOSE x \in ks : \A z \in ks : x >= z

\* the lazy left group: the shortest left part that lets the rest match
Shortest(ks) == CHOOSE x \in ks : \A z \in ks : x <= z

MatchAmong(s, ks) ==
    LET MatchAt(k) ==
            [matched |-> TRUE, left |-> Take(s, k), right |-> Drop(s, DashAfter(s, k))]
    IN  IF ks = {}
        THEN [matched |-> FALSE, left |-> <<>>, right |-> <<>>]
        ELSE MatchAt(Shortest(ks))

rangeMatch(s) == MatchAmong(s, SplitPoints(s))

\* variant: a start whose end did not parse returned with that end
RangeResultStartOnly(startDetails, endDetails) ==
    IF Truthy(startDetails) /\ Truthy(endDetails) /\ DateGT(endDetails, startDetails)
    THEN Times(startDetails, endDetails)
    ELSE IF Truthy(startDetails)
         THEN Times(startDetails, endDetails)
         ELSE NoTimes

\* variant: no check that the end is after the start
RangeResultUnchecked(startDetails, endDetails) ==
    IF Truthy(startDetails) /\ Truthy(endDetails)
    THEN Times(startDetails, endDetails)
    ELSE IF Truthy(startDetails)
         THEN Times(startDetails, addHours(startDetails, 1))
         ELSE NoTimes

\* variant: one hour from the start only when the end did not parse
RangeResultOnlyWhenEndFails(startDetails, endDetails) ==
    IF Truthy(startDetails) /\ Truthy(endDetails) /\ DateGT(endDetails, startDetails)
    THEN Times(startDetails, endDetails)
    ELSE IF Truthy(startDetails) /\ ~Truthy(endDetails)
         THEN Times(startDetails, addHours(startDetails, 1))
         ELSE NoTimes

\* lines 100-105: the range when the end is after the start, else one hour
\* from the start whenever the start parsed; NoTimes when nothing is returned
RangeResult(startDetails, endDetails) ==
    IF Truthy(startDetails) /\ Truthy(endDetails) /\ DateGT(endDetails, startDetails)
    THEN Times(startDetails, endDetails)
    ELSE IF Truthy(startDetails)
         THEN Times(startDetails, addHours(startDetails, 1))
         ELSE NoTimes

\* variant: the end parsed from the left part as well
RangeOfLeftTwice(m, date) ==
    IF m.matched
    THEN RangeResult(parseSingleTime(trim(m.left), date),
                     parseSingleTime(trim(m.left), date))
    ELSE NoTimes

RangeOf(m, date) ==
    IF m.matched
    THEN RangeResult(parseSingleTime(trim(m.left), date),
                     parseSingleTime(trim(m.right), date))
    ELSE NoTimes

\* the range branch
RangeStep(timeStr, date) == RangeOf(rangeMatch(timeStr), date)

\* variant: the test of line 110 dropped
OneHourFromUntested(singleTimeDetails) ==
    Times(singleTimeDetails, addHours(singleTimeDetails, 1))

\* the default duration of one hour
OneHourFrom(singleTimeDetails) ==
    IF Truthy(singleTimeDetails)
    THEN Times(singleTimeDetails, addHours(singleTimeDetails, 1))
    ELSE NoTimes

\* the single-time fallback on the whole string
SingleStep(timeStr, date) == OneHourFrom(parseSingleTime(timeStr, date))

FirstTimes(r, s) == IF Truthy(r.start) THEN r ELSE s

TrimmedTime(timeStr, date) ==
    FirstTimes(RangeStep(timeStr, date), SingleStep(timeStr, date))

parseTimeString(timeArg, date) ==
    IF Falsy(timeArg) \/ ~Truthy(date) \/ ~isValid(date) THEN NoTimes
    ELSE IF ~IsString(timeArg)
         THEN Threw     \* timeStr.trim() on a value that has no trim method
         ELSE TrimmedTime(trim(timeArg.chars), date)

\* variant: the day cloned with `new Date(specificDate)` before the test of
\* line 152, which turns null into the epoch
TimeOnDayCloned(dayResult, timeArg) ==
    IF dayResult.threw THEN Threw
    ELSE IF ~Truthy(dayResult.date) THEN parseTimeString(timeArg, Date(0, 0))
    ELSE parseTimeString(timeArg, dayResult.date)

\* lines 152-156 with the outcome of parseDayString
TimeOnDay(dayResult, timeArg) ==
    IF dayResult.threw THEN Threw
    ELSE IF ~Truthy(dayResult.date) THEN NoTimes
    ELSE parseTimeString(timeArg, dayResult.date)

parseTaskDateTime(t, ref) == TimeOnDay(parseDayString(t.day, ref), t.time)

\* Which object the resolved day is: for 'today' line 42 returns `today`, the
\* caller's reference date itself; parseISO, addDays and parse make new Dates.
DayObject(dayArg) ==
    IF IsString(dayArg) /\ toLowerCase(trim(dayArg.chars)) = <<"t", "o", "d", "a", "y">>
    THEN "referenceDate"
    ELSE "fresh"

\* variant: no clone on line 128, the setters write to `date`
SetterTargetNoClone(dateObject) == dateObject

\* the object the setters of lines 129-132 write to: finalDate, which line
\* 128 makes as a clone of `date`
SetterTarget(dateObject) == "clone"

\* the instant the caller's reference date denotes after the call returned r:
\* another one only if the setters wrote to that object
ReferenceAfter(t, ref, r) ==
    IF SetterTarget(DayObject(t.day)) = "referenceDate" /\ Truthy(r.start)
    THEN r.start
    ELSE ref

----------------------------------------------------------------------------
(* Inputs of the resolver: what the task store can hold in `day` and       *)
(* `time` (free text written by the language model, or nothing at all),    *)
(* reference dates, server timezones and clock readings.                   *)

DayValues ==
    { Str(<<"2", "0", "2", "5", "-", "0", "4", "-", "1", "2">>), Str(<<"2", "0", "2", "4", "-", "0", "2", "-", "2", "9">>), Str(<<"2", "0", "2", "5", "-", "0", "2", "-", "3", "0">>),
      Str(<<"t", "o", "d", "a", "y">>), Str(<<"T", "o", "d", "a", "y">>), Str(<<"t", "o", "m", "o", "r", "r", "o", "w">>), Str(<<"T", "O", "M", "O", "R", "R", "O", "W">>),
      Str(<<"s", "u", "n", "d", "a", "y">>), Str(<<"M", "o", "n", "d", "a", "y">>), Str(<<"T", "U", "E", "S", "D", "A", "Y">>), Str(<<" ", "W", "e", "d", "n", "e", "s", "d", "a", "y", " ">>),
      Str(<<"t", "h", "u", "r", "s", "d", "a", "y">>), Str(<<"F", "r", "i", "d", "a", "y">>), Str(<<"s", "a", "t", "u", "r", "D", "A", "Y">>),
      Str(<<"A", "p", "r", "i", "l", " ", "1", "2">>), Str(<<"A", "p", "r", " ", "1", "2">>), Str(<<"F", "e", "b", " ", "2", "9">>),
      Str(<<"B", "l", "u", "r", "s", "d", "a", "y">>), Str(<<>>),
      Undefined, JsNull, Num(5) }

TimeValues ==
    { Str(<<"9", ":", "0", "0", " ", "A", "M">>), Str(<<"9", "A", "M">>), Str(<<"9", " ", "A", "M">>), Str(<<"1", "4", ":", "3", "0">>),
      Str(<<"2", ":", "0", "0", " ", "P", "M">>), Str(<<"1", "1", ":", "3", "0", " ", "P", "M">>), Str(<<"1", "2", ":", "0", "0", " ", "A", "M">>), Str(<<"7", ":", "3", "0", " ", "p", "m">>),
      Str(<<"9", ":", "0", "0">>), Str(<<"2", ":", "3", "0", " ", "A", "M">>), Str(<<"2", "5", ":", "0", "0">>),
      Str(<<"9", ":", "0", "0", " ", "A", "M", " ", "-", " ", "1", "0", ":", "3", "0", " ", "A", "M">>), Str(<<"1", ":", "3", "0", " ", "P", "M", "-", "3", ":", "0", "0", " ", "P", "M">>),
      Str(<<"5", ":", "0", "0", " ", "P", "M", " ", "-", " ", "3", ":", "0", "0", " ", "P", "M">>), Str(<<"9", ":", "0", "0", " ", "A", "M", " ", "-", " ", "l", "a", "t", "e">>),
      Str(<<"l", "a", "t", "e", " ", "-", " ", "9", ":", "0", "0", " ", "A", "M">>), Str(<<"9", ":", "0", "0", " ", "A", "M", " ", "-", " ", "1", "0", ":", "0", "0", " ", "A", "M", " ", "-", " ", "1", "1", ":", "0", "0", " ", "A", "M">>),
      Str(<<"-", " ", "9", ":", "0", "0", " ", "A", "M", " ", "-", " ", "1", "0", ":", "0", "0", " ", "A", "M">>),
      Str(<<"w", "h", "e", "n", "e", "v", "e", "r">>), Str(<<>>),
      Undefined, JsNull, Num(900) }

Tasks == [day : DayValues, time : TimeValues]

\* number of consecutive days the reference date ranges over
NumRefDays == 8

\* 2025-04-06T00:00Z, a Sunday
RefBase == DaysFromCivil(2025, 4, 6) * MinutesPerDay

\* the time of day (UTC) and the milliseconds of the k-th reference date
RefClock(k) ==
    CASE k % 3 = 0 -> [min |-> 0, sub |-> 0]
      [] k % 3 = 1 -> [min |-> 10 * 60 + 15, sub |-> 30250]
      [] k % 3 = 2 -> [min |-> 23 * 60 + 30, sub |-> 59999]

\* consecutive days at changing times of day, and the last evening (UTC) of
\* the leap year 2024, which is already 2025 in the zone east of UTC
RefDates ==
    { Date(RefBase + k * MinutesPerDay + RefClock(k).min, RefClock(k).sub) :
        k \in 0..(NumRefDays - 1) }
    \cup {Date(DaysFromCivil(2024, 12, 31) * MinutesPerDay + 23 * 60 + 30, 4321)}

Zones == {-300, 0, 330}

\* clock readings: one in the morning and one in the afternoon of every zone,
\* and one on the day the clocks of the zone at -300 skipped an hour
Clocks ==
    { Date(RefBase + 10 * 60 + 5, 12345), Date(RefBase + 17 * 60 + 40, 999),
      Date(Gap.day * MinutesPerDay + 12 * 60, 500) }

\* no call of formatForICS on its own
FIdle ==
    /\ fpc = "idle"
    /\ icsDate = NullDate
    /\ icsFields = <<>>

\* no request on /api/chat or /api/chat-status
CIdle ==
    /\ clock = 0
    /\ user = [found |-> FALSE, chatRequestTimestamps |-> <<>>]
    /\ chat = <<>>
    /\ asked = 0
    /\ passed = <<>>
    /\ remaining = 0

\* no request on the stored task list
SIdle ==
    /\ doc = [found |-> FALSE, tasks |-> <<>>]
    /\ api = <<>>
    /\ uuid = 0

\* no dashboard
DIdle ==
    /\ allTasks = <<>>
    /\ pendingTaskActions = <<>>
    /\ isGenerating = FALSE
    /\ isLoadingSchedule = FALSE
    /\ editingTask = 0
    /\ inflight = {}
    /\ sent = 0

\* calls of parseTaskDateTime made on one input
MaxCalls == 2

NotCalled == NoTimes

\* the export handler at rest
XIdle ==
    /\ session = FALSE
    /\ schedule = [found |-> FALSE, tasks |-> <<>>]
    /\ xpc = "idle"
    /\ idx = 0
    /\ events = <<>>
    /\ ics = "notcalled"
    /\ status = 0
    /\ payload = <<>>

Init ==
    /\ tz \in Zones
    /\ now \in Clocks
    /\ task \in Tasks
    /\ referenceDate \in RefDates
    /\ specificDate = NoDate
    /\ result = NotCalled
    /\ calls = 0
    /\ XIdle
    /\ FIdle
    /\ CIdle
    /\ SIdle
    /\ DIdle

\* one call parseTaskDateTime(task, referenceDate)
Resolve ==
    /\ calls < MaxCalls
    /\ specificDate' = parseDayString(task.day, referenceDate)
    /\ result' = parseTaskDateTime(task, referenceDate)
    /\ referenceDate' = ReferenceAfter(task, referenceDate, result')
    /\ calls' = calls + 1
    /\ UNCHANGED <<tz, now, task, xvars, fvars, cvars, svars, dvars>>

\* the system clock moves between two calls
Tick ==
    /\ calls > 0
    /\ calls < MaxCalls
    /\ now' \in Clocks \ {now}
    /\ UNCHANGED <<tz, task, referenceDate, specificDate, result, calls, xvars, fvars, cvars, svars, dvars>>

Next ==
    \/ Resolve
    \/ Tick

Spec == Init /\ [][Next]_vars

----------------------------------------------------------------------------
(* GET /api/export-schedule (src/app/api/export-schedule/route.ts)         *)

\* formatForICS: [year, month, day, hour, minute] read in UTC, or null
NoArray == <<>>
\* variant: the local fields (getFullYear, getMonth, ... for getUTC...)
UTCFieldsLocal(c, t) ==
    <<CivilFromDays((t + tz) \div MinutesPerDay).y,
      CivilFromDays((t + tz) \div MinutesPerDay).m,
      CivilFromDays((t + tz) \div MinutesPerDay).d,
      ((t + tz) % MinutesPerDay) \div 60, (t + tz) % 60>>

\* variant: the month as getUTCMonth gives it, numbered from 0
UTCFieldsMonthFromZero(c, t) ==
    <<c.y, c.m - 1, c.d, (t % MinutesPerDay) \div 60, t % 60>>

UTCFields(c, t) == <<c.y, c.m, c.d, (t % MinutesPerDay) \div 60, t % 60>>

formatForICS(date) ==
    IF ~Truthy(date) \/ ~isValid(date) THEN NoArray
    ELSE UTCFields(CivilFromDays(date.t \div MinutesPerDay), date.t)

\* the stored tasks the model draws schedules from: resolvable ones and
\* ones whose day or time is unparseable, missing or not a string
TaskPool ==
    { [content |-> Str(<<"G", "y", "m">>), day |-> Str(<<"M", "o", "n", "d", "a", "y">>), time |-> Str(<<"9", ":", "0", "0", " ", "A", "M">>),
       notes |-> JsNull],
      [content |-> Str(<<"R", "e", "a", "d">>), day |-> Str(<<"2", "0", "2", "5", "-", "0", "4", "-", "1", "2">>),
       time |-> Str(<<"2", ":", "0", "0", " ", "P", "M", " ", "-", " ", "3", ":", "3", "0", " ", "P", "M">>), notes |-> Str(<<"c", "h", " ", "2">>)],
      [content |-> Str(<<"C", "a", "l", "l">>), day |-> Str(<<"B", "l", "u", "r", "s", "d", "a", "y">>), time |-> Str(<<"9", ":", "0", "0", " ", "A", "M">>),
       notes |-> JsNull],
      [content |-> Str(<<"N", "a", "p">>), day |-> Str(<<"t", "o", "d", "a", "y">>), time |-> Str(<<"w", "h", "e", "n", "e", "v", "e", "r">>),
       notes |-> JsNull],
      [content |-> Str(<<"R", "u", "n">>), day |-> Undefined, time |-> Str(<<"9", ":", "0", "0", " ", "A", "M">>),
       notes |-> JsNull],
      [content |-> Str(<<"M", "a", "i", "l">>), day |-> Str(<<"t", "o", "m", "o", "r", "r", "o", "w">>), time |-> Undefined,
       notes |-> Undefined],
      [content |-> Str(<<"S", "h", "o", "p">>), day |-> Str(<<"t", "o", "d", "a", "y">>), time |-> Num(900),
       notes |-> JsNull] }

\* most tasks a stored schedule holds
MaxTasks == 3

\* the stored lists: no document, or up to MaxTasks tasks of the pool, the
\* k-th with the task id k
Schedules ==
    LET Stored(k, t) ==
            [taskId |-> k, content |-> t.content, day |-> t.day, time |-> t.time,
             notes |-> t.notes]
    IN  {[found |-> FALSE, tasks |-> <<>>]} \cup
        UNION { { [found |-> TRUE, tasks |-> [k \in 1..n |-> Stored(k, f[k])]] :
                    f \in [1..n -> TaskPool] } : n \in 0..MaxTasks }

XInit ==
    /\ tz \in Zones
    /\ now \in Clocks
    /\ referenceDate = now
    /\ task = [day |-> Undefined, time |-> Undefined]
    /\ specificDate = NoDate
    /\ result = NotCalled
    /\ calls = 0
    /\ session \in BOOLEAN
    /\ schedule \in Schedules
    /\ xpc = "start"
    /\ idx = 0
    /\ events = <<>>
    /\ ics = "notcalled"
    /\ status = 0
    /\ payload = <<>>
    /\ FIdle
    /\ CIdle
    /\ SIdle
    /\ DIdle

Respond(code) ==
    /\ xpc' = "done"
    /\ status' = code

\* lines 15-34: the session, the user's document, the reference date
Fetch ==
    /\ xpc = "start"
    /\ IF ~session
       THEN Respond(401) /\ UNCHANGED <<referenceDate, idx>>
       ELSE IF ~schedule.found \/ Len(schedule.tasks) = 0
       THEN Respond(404) /\ UNCHANGED <<referenceDate, idx>>
       ELSE /\ xpc' = "loop"
            /\ referenceDate' = now
            /\ idx' = 1
            /\ UNCHANGED status
    /\ UNCHANGED <<tz, now, rvars, session, schedule, events, ics, payload, fvars, cvars, svars, dvars>>

\* the event pushed for a task that resolved to start and end
EventOf(t, startArr, endArr) ==
    [title |-> t.content, start |-> startArr, end |-> endArr,
     description |-> IF Falsy(t.notes) THEN Undefined ELSE t.notes,  \* notes || undefined
     uid |-> t.taskId]

\* variant: the event put in front of the array (unshift for push)
PushedInFront(t, startArr, endArr) ==
    IF startArr # NoArray /\ endArr # NoArray
    THEN <<EventOf(t, startArr, endArr)>> \o events
    ELSE events

\* lines 40-53: the event is pushed when both arrays could be formatted
Pushed(t, startArr, endArr) ==
    IF startArr # NoArray /\ endArr # NoArray
    THEN Append(events, EventOf(t, startArr, endArr))
    ELSE events

\* lines 37-56 for a task whose resolution gave r
Collected(t, r) ==
    IF Truthy(r.start) /\ Truthy(r.end)
    THEN Pushed(t, formatForICS(r.start), formatForICS(r.end))
    ELSE events

\* an exception leaves the forEach for the catch block of the handler
\* (line 87), which answers 500
Turn(t, r) ==
    IF r.threw
    THEN Respond(500) /\ UNCHANGED <<idx, events, referenceDate>>
    ELSE /\ idx' = idx + 1
         /\ events' = Collected(t, r)
         /\ referenceDate' = ReferenceAfter(t, referenceDate, r)
         /\ UNCHANGED <<xpc, status>>

\* lines 36-57: one turn of the forEach
EachTask ==
    /\ xpc = "loop"
    /\ idx <= Len(schedule.tasks)
    /\ Turn(schedule.tasks[idx], parseTaskDateTime(schedule.tasks[idx], referenceDate))
    /\ UNCHANGED <<tz, now, rvars, session, schedule, ics, payload, fvars, cvars, svars, dvars>>

\* variant: an empty payload answered like an empty list of events
AnsweredEmptyAsNothing(answer) ==
    IF answer = "value" THEN 200 ELSE IF answer = "empty" THEN 400 ELSE 500

\* lines 65-84: the status after ics.createEvents returned {error, value}:
\* an error is thrown to the catch block (500), no value is 500, a value 200
Answered(answer) == IF answer = "value" THEN 200 ELSE 500

\* lines 59-84: nothing to export, or the serializer's answer
Serialize ==
    /\ xpc = "loop"
    /\ idx > Len(schedule.tasks)
    /\ IF Len(events) = 0
       THEN Respond(400) /\ UNCHANGED <<ics, payload>>
       ELSE \E answer \in {"value", "error", "empty"} :
               /\ ics' = answer
               /\ Respond(Answered(answer))
               /\ payload' = IF answer = "value" THEN events ELSE <<>>
    /\ UNCHANGED <<tz, now, referenceDate, rvars, session, schedule, idx, events, fvars, cvars, svars, dvars>>

XNext ==
    \/ Fetch
    \/ EachTask
    \/ Serialize

SpecExport == XInit /\ [][XNext]_vars

----------------------------------------------------------------------------
(* formatForICS on its own: one call on a Date, or on null                 *)

\* the values of `date`: instants (calendar days at minutes of the day, with
\* seconds inside the minute), an Invalid Date, null
ICSDates ==
    LET ICSDays ==
            { DaysFromCivil(1969, 12, 31), DaysFromCivil(1970, 1, 1),
              DaysFromCivil(1999, 12, 31), DaysFromCivil(2000, 2, 29),
              DaysFromCivil(2024, 2, 29), DaysFromCivil(2024, 12, 31),
              DaysFromCivil(2025, 1, 1), DaysFromCivil(2025, 3, 1),
              DaysFromCivil(2025, 4, 12) }
        ICSMinutes == {0, 59, 9 * 60, 10 * 60 + 30, 12 * 60, 23 * 60 + 59}
    IN  { Date(dn * MinutesPerDay + m, sub) :
            dn \in ICSDays, m \in ICSMinutes, sub \in {0, 59999} }
        \cup {InvalidDate, NullDate}

FInit ==
    /\ tz \in Zones
    /\ now \in Clocks
    /\ referenceDate = now
    /\ task = [day |-> Undefined, time |-> Undefined]
    /\ specificDate = NoDate
    /\ result = NotCalled
    /\ calls = 0
    /\ XIdle
    /\ fpc = "call"
    /\ icsDate \in ICSDates
    /\ icsFields = <<>>
    /\ CIdle
    /\ SIdle
    /\ DIdle

\* one call formatForICS(icsDate)
Format ==
    /\ fpc = "call"
    /\ icsFields' = formatForICS(icsDate)
    /\ fpc' = "done"
    /\ UNCHANGED <<tz, now, referenceDate, rvars, xvars, icsDate, cvars, svars, dvars>>

FNext == Format

SpecICS == FInit /\ [][FNext]_vars

----------------------------------------------------------------------------
(* POST /api/chat and GET /api/chat-status: the rate limit                 *)
(*                                                                         *)
(* Timestamps are minutes.  A request is two database calls, findOne and   *)
(* updateOne, and the requests of one user interleave between them.        *)

RATE_LIMIT_COUNT == 5
RATE_LIMIT_WINDOW_MINUTES == 10

\* requests of the user that can be in flight together
MaxChat == 2
\* requests the user makes
MaxChatRequests == 3
\* minutes the clock runs
MaxClock == 12

\* the resolver, the export handler and the formatter at rest
RIdle ==
    /\ tz = 0
    /\ now = Date(RefBase, 0)
    /\ referenceDate = now
    /\ task = [day |-> Undefined, time |-> Undefined]
    /\ specificDate = NoDate
    /\ result = NotCalled
    /\ calls = 0
    /\ XIdle
    /\ FIdle

\* timestamps.filter(ts => new Date(ts).getTime() >= windowStart)
recentTimestamps(timestamps, dateNow) ==
    SelectSeq(timestamps, LAMBDA ts : ts >= dateNow - RATE_LIMIT_WINDOW_MINUTES)

\* what the user's document holds after requests made one after the other
StoredUsers ==
    { [found |-> FALSE, chatRequestTimestamps |-> <<>>],
      [found |-> TRUE, chatRequestTimestamps |-> <<>>],
      [found |-> TRUE, chatRequestTimestamps |-> <<0, 0, 1, 2>>] }

CInit ==
    /\ RIdle
    /\ SIdle
    /\ DIdle
    /\ clock = 2
    /\ user \in StoredUsers
    /\ chat = [r \in 1..MaxChat |->
                  [pc |-> "idle", newTimestamps |-> <<>>, status |-> 0]]
    /\ asked = 0
    /\ passed \in IF user.found
                   THEN {user.chatRequestTimestamps}
                   ELSE {<<>>, <<0, 0, 1, 2>>}
    /\ remaining = RATE_LIMIT_COUNT

\* lines 39-55: findOne has answered; the window, the filter, the test
ChatFind(r) ==
    /\ chat[r].pc \in {"idle", "done"}
    /\ asked < MaxChatRequests
    /\ asked' = asked + 1
    /\ IF Len(recentTimestamps(user.chatRequestTimestamps, clock)) >= RATE_LIMIT_COUNT
       THEN /\ chat' = [chat EXCEPT ![r] =
                          [pc |-> "done", newTimestamps |-> <<>>, status |-> 429]]
            /\ UNCHANGED passed
       ELSE /\ chat' = [chat EXCEPT ![r] =
                          [pc |-> "update",
                           newTimestamps |->
                               Append(recentTimestamps(user.chatRequestTimestamps, clock),
                                      clock),
                           status |-> 0]]
            /\ passed' = Append(passed, clock)
    /\ UNCHANGED <<tz, now, referenceDate, rvars, xvars, fvars, svars, dvars,
                   clock, user, remaining>>

\* lines 56-91: updateOne (no upsert) is applied, then the chat itself
ChatUpdate(r) ==
    /\ chat[r].pc = "update"
    /\ user' = IF user.found
               THEN [user EXCEPT !.chatRequestTimestamps = chat[r].newTimestamps]
               ELSE user
    /\ \E code \in {200, 400, 500} :
           chat' = [chat EXCEPT ![r] = [@ EXCEPT !.pc = "done", !.status = code]]
    /\ UNCHANGED <<tz, now, referenceDate, rvars, xvars, fvars, svars, dvars,
                   clock, asked, passed, remaining>>

\* GET /api/chat-status
ChatStatus ==
    /\ remaining' =
           IF RATE_LIMIT_COUNT
                  - Len(recentTimestamps(user.chatRequestTimestamps, clock)) > 0
           THEN RATE_LIMIT_COUNT
                  - Len(recentTimestamps(user.chatRequestTimestamps, clock))
           ELSE 0
    /\ UNCHANGED <<tz, now, referenceDate, rvars, xvars, fvars, svars, dvars,
                   clock, user, chat, asked, passed>>

\* a minute passes
ChatTick ==
    /\ clock < MaxClock
    /\ clock' = clock + 1
    /\ UNCHANGED <<tz, now, referenceDate, rvars, xvars, fvars, svars, dvars,
                   user, chat, asked, passed, remaining>>

CNext ==
    \/ \E r \in 1..MaxChat : ChatFind(r)
    \/ \E r \in 1..MaxChat : ChatUpdate(r)
    \/ ChatStatus
    \/ ChatTick

SpecChat == CInit /\ [][CNext]_vars

----------------------------------------------------------------------------
(* The routes that write the user's task list: generate-schedule,          *)
(* delete-task, update-task and edit-task.                                 *)
(*                                                                         *)
(* Each database call is one step; the requests of one user interleave     *)
(* between the calls of a handler.  A task id is a number, 0 standing for  *)
(* a taskId that is missing or not a string; a key that a JSON body does   *)
(* not carry reads as undefined.                                           *)

\* requests of the user on the task list
MaxApi == 2

Bool(b) == [type |-> "boolean", chars |-> <<>>, n |-> IF b THEN 1 ELSE 0]

ALLOWED_UPDATE_FIELDS == {"content", "day", "time", "notes"}

\* variant: the pull that also takes the tasks stored after the one named
PullFromThere(tasks, taskId) == SelectSeq(tasks, LAMBDA t : t.taskId < taskId)

\* { $pull: { tasks: { taskId: taskId } } }
Pull(tasks, taskId) == SelectSeq(tasks, LAMBDA t : t.taskId # taskId)

\* variant: the $set without array filter, applied to every task
SetFieldsOfAll(tasks, taskId, fields) ==
    [i \in 1..Len(tasks) |->
        [key \in DOMAIN tasks[i] |->
            IF key \in DOMAIN fields /\ fields[key] # Undefined
            THEN fields[key]
            ELSE tasks[i][key]]]

\* { $set: { "tasks.$[elem].<key>": value, ... } } with
\* arrayFilters [{ "elem.taskId": taskId }]; fields[key] is undefined for a
\* key the $set does not name
SetFields(tasks, taskId, fields) ==
    [i \in 1..Len(tasks) |->
        IF tasks[i].taskId = taskId
        THEN [key \in DOMAIN tasks[i] |->
                 IF key \in DOMAIN fields /\ fields[key] # Undefined
                 THEN fields[key]
                 ELSE tasks[i][key]]
        ELSE tasks[i]]

\* variant: the $set takes every allowed key as the body gives it
updateFieldsUnchecked(updates) == [key \in ALLOWED_UPDATE_FIELDS |-> updates[key]]

\* edit-task, lines 36-52: the $set built from the body's updates
updateFields(updates) ==
    [key \in ALLOWED_UPDATE_FIELDS |->
        IF key = "notes"
        THEN IF updates[key].type \in {"null", "string"}
             THEN updates[key]
             ELSE Undefined
        ELSE IF IsString(updates[key]) /\ trim(updates[key].chars) # <<>>
             THEN updates[key]
             ELSE Undefined]

hasValidUpdate(updates) ==
    \E key \in ALLOWED_UPDATE_FIELDS : updateFields(updates)[key] # Undefined

\* generate-schedule, lines 142-149: the tasks made of the AI's answer, n ids
\* having been handed out before
newTasks(parsedTasks, n) ==
    [i \in 1..Len(parsedTasks) |->
        [taskId |-> n + i,
         content |-> IF Falsy(parsedTasks[i].content)
                     THEN Str(<<"U", "n", "n", "a", "m", "e", "d", " ", "T", "a", "s", "k">>) ELSE parsedTasks[i].content,
         day |-> IF Falsy(parsedTasks[i].day)
                 THEN Str(<<"U", "n", "s", "p", "e", "c", "i", "f", "i", "e", "d", " ", "D", "a", "y">>) ELSE parsedTasks[i].day,
         time |-> IF Falsy(parsedTasks[i].time)
                  THEN Str(<<"U", "n", "s", "p", "e", "c", "i", "f", "i", "e", "d", " ", "T", "i", "m", "e">>) ELSE parsedTasks[i].time,
         isCompleted |-> Bool(FALSE),
         notes |-> IF Falsy(parsedTasks[i].notes)
                   THEN JsNull ELSE parsedTasks[i].notes]]

\* the `tasks` arrays of the AI's answers
ParsedTasks ==
    { <<>>,
      << [content |-> Str(<<"W", "a", "l", "k">>), day |-> Str(<<"F", "r", "i", "d", "a", "y">>),
          time |-> Str(<<"8", ":", "0", "0", " ", "A", "M">>), notes |-> Undefined] >>,
      << [content |-> Undefined, day |-> Str(<<>>),
          time |-> Str(<<"1", ":", "0", "0", " ", "P", "M">>), notes |-> Str(<<"3", "0", " ", "m", "i", "n">>)],
         [content |-> Str(<<"C", "o", "o", "k">>), day |-> Str(<<"2", "0", "2", "5", "-", "0", "4", "-", "1", "2">>),
          time |-> Undefined, notes |-> JsNull] >> }

\* the bodies' `updates` objects
NoUpdates ==
    [content |-> Undefined, day |-> Undefined, time |-> Undefined,
     notes |-> Undefined, isCompleted |-> Undefined, taskId |-> Undefined]

Updates ==
    { NoUpdates,
      [NoUpdates EXCEPT !.content = Str(<<"S", "w", "i", "m">>)],
      [NoUpdates EXCEPT !.day = Str(<<"M", "o", "n", "d", "a", "y">>), !.time = Str(<<" ">>)],
      [NoUpdates EXCEPT !.notes = JsNull],
      [NoUpdates EXCEPT !.notes = Num(7), !.content = Str(<<>>)],
      [NoUpdates EXCEPT !.notes = Str(<<>>), !.isCompleted = Bool(TRUE),
                        !.taskId = Num(9)],
      [NoUpdates EXCEPT !.isCompleted = Bool(TRUE)],
      [NoUpdates EXCEPT !.time = Str(<<"1", "0", ":", "0", "0", " ", "A", "M">>), !.content = Num(5)] }

\* what the schedules collection holds for the user: nothing, or a list
\* generated earlier, of which tasks may have been completed or deleted
StoredDocs ==
    { [found |-> FALSE, tasks |-> <<>>],
      [found |-> TRUE, tasks |-> <<>>],
      [found |-> TRUE, tasks |->
          << [taskId |-> 1, content |-> Str(<<"G", "y", "m">>), day |-> Str(<<"M", "o", "n", "d", "a", "y">>),
              time |-> Str(<<"9", ":", "0", "0", " ", "A", "M">>), isCompleted |-> Bool(FALSE),
              notes |-> JsNull],
             [taskId |-> 2, content |-> Str(<<"R", "e", "a", "d">>), day |-> Str(<<"2", "0", "2", "5", "-", "0", "4", "-", "1", "2">>),
              time |-> Str(<<"2", ":", "0", "0", " ", "P", "M">>), isCompleted |-> Bool(TRUE),
              notes |-> Str(<<"c", "h", " ", "2">>)] >>] }

\* the ids requests name: two of the stored list, one of no task, none
TaskIds == 0..3

NoRequest ==
    [op |-> "none", pc |-> "idle", taskId |-> 0, isCompleted |-> Undefined,
     updates |-> NoUpdates, existingTasks |-> <<>>, newTasks |-> <<>>,
     status |-> 0, tasks |-> <<>>]

SInit ==
    /\ RIdle
    /\ CIdle
    /\ DIdle
    /\ doc \in StoredDocs
    /\ api = [r \in 1..MaxApi |-> NoRequest]
    /\ uuid = 2

\* the response: the handler returns
Answer(r, request, code) ==
    api' = [api EXCEPT ![r] = [request EXCEPT !.pc = "done", !.status = code]]

\* generate-schedule, lines 33-170: the session, the body, the AI's answer,
\* the ids, the upsert of the user and findOne of the stored list
GenerateFind(r) ==
    /\ api[r].pc = "idle"
    /\ \/ /\ \E code \in {400, 401, 500} :
                 Answer(r, [NoRequest EXCEPT !.op = "generate"], code)
          /\ UNCHANGED <<user, uuid>>
       \/ \E parsedTasks \in ParsedTasks :
              /\ api' = [api EXCEPT ![r] =
                           [NoRequest EXCEPT
                               !.op = "generate", !.pc = "update",
                               !.existingTasks = doc.tasks,
                               !.newTasks = newTasks(parsedTasks, uuid)]]
              /\ uuid' = uuid + Len(parsedTasks)
              /\ user' = [user EXCEPT !.found = TRUE]
    /\ UNCHANGED <<tz, now, referenceDate, rvars, xvars, fvars, dvars,
                   clock, chat, asked, passed, remaining, doc>>

\* generate-schedule, lines 173-190: the combined list is $set, with upsert
GenerateUpdate(r) ==
    /\ api[r].op = "generate"
    /\ api[r].pc = "update"
    /\ doc' = [found |-> TRUE, tasks |-> api[r].existingTasks \o api[r].newTasks]
    /\ api' = [api EXCEPT ![r].pc = "final"]
    /\ UNCHANGED <<tz, now, referenceDate, rvars, xvars, fvars, cvars, dvars, uuid>>

\* generate-schedule, lines 201-208: the stored list is read again and sent
GenerateRespond(r) ==
    /\ api[r].op = "generate"
    /\ api[r].pc = "final"
    /\ Answer(r, [api[r] EXCEPT !.tasks = doc.tasks], 200)
    /\ UNCHANGED <<tz, now, referenceDate, rvars, xvars, fvars, cvars, dvars, doc, uuid>>

\* DELETE /api/delete-task
DeleteTask(r) ==
    /\ api[r].pc = "idle"
    /\ \/ /\ Answer(r, [NoRequest EXCEPT !.op = "delete"], 401)
          /\ UNCHANGED doc
       \/ \E taskId \in TaskIds :
              IF taskId = 0
              THEN /\ Answer(r, [NoRequest EXCEPT !.op = "delete"], 400)
                   /\ UNCHANGED doc
              ELSE /\ doc' = [doc EXCEPT !.tasks = Pull(doc.tasks, taskId)]
                   /\ Answer(r, [NoRequest EXCEPT !.op = "delete", !.taskId = taskId],
                             IF ~doc.found \/ doc' = doc THEN 404 ELSE 200)
    /\ UNCHANGED <<tz, now, referenceDate, rvars, xvars, fvars, cvars, dvars, uuid>>

\* PATCH /api/update-task, lines 11-47: up to the answer of updateOne
UpdateTask(r) ==
    /\ api[r].pc = "idle"
    /\ \/ /\ Answer(r, [NoRequest EXCEPT !.op = "update"], 401)
          /\ UNCHANGED doc
       \/ \E taskId \in TaskIds, isCompleted \in {Bool(TRUE), Bool(FALSE), Str(<<"y", "e", "s">>)} :
              IF taskId = 0 \/ isCompleted.type # "boolean"
              THEN /\ Answer(r, [NoRequest EXCEPT !.op = "update", !.taskId = taskId,
                                                  !.isCompleted = isCompleted], 400)
                   /\ UNCHANGED doc
              ELSE /\ doc' = [doc EXCEPT !.tasks =
                                 SetFields(doc.tasks, taskId,
                                           [isCompleted |-> isCompleted])]
                   /\ api' = [api EXCEPT ![r] =
                                [NoRequest EXCEPT
                                    !.op = "update", !.taskId = taskId,
                                    !.isCompleted = isCompleted,
                                    !.pc = IF doc.found /\ doc' = doc
                                           THEN "check" ELSE "done",
                                    !.status = IF ~doc.found THEN 404
                                               ELSE IF doc' = doc THEN 0 ELSE 200]]
    /\ UNCHANGED <<tz, now, referenceDate, rvars, xvars, fvars, cvars, dvars, uuid>>

\* PATCH /api/update-task, lines 48-67: nothing was modified, is the task there
UpdateCheck(r) ==
    /\ api[r].op = "update"
    /\ api[r].pc = "check"
    /\ Answer(r, api[r],
              IF doc.found /\ \E i \in 1..Len(doc.tasks) :
                                  doc.tasks[i].taskId = api[r].taskId
              THEN 200 ELSE 404)
    /\ UNCHANGED <<tz, now, referenceDate, rvars, xvars, fvars, cvars, dvars, doc, uuid>>

\* PATCH /api/edit-task, lines 14-72: up to the answer of updateOne
EditTask(r) ==
    /\ api[r].pc = "idle"
    /\ \/ /\ Answer(r, [NoRequest EXCEPT !.op = "edit"], 401)
          /\ UNCHANGED doc
       \/ \E taskId \in TaskIds, updates \in Updates :
              IF taskId = 0 \/ updates = NoUpdates \/ ~hasValidUpdate(updates)
              THEN /\ Answer(r, [NoRequest EXCEPT !.op = "edit", !.taskId = taskId,
                                                  !.updates = updates], 400)
                   /\ UNCHANGED doc
              ELSE /\ doc' = [doc EXCEPT !.tasks =
                                 SetFields(doc.tasks, taskId, updateFields(updates))]
                   /\ api' = [api EXCEPT ![r] =
                                [NoRequest EXCEPT
                                    !.op = "edit", !.taskId = taskId,
                                    !.updates = updates,
                                    !.pc = IF doc.found /\ doc' = doc
                                           THEN "check" ELSE "done",
                                    !.status = IF ~doc.found THEN 404
                                               ELSE IF doc' = doc THEN 0 ELSE 200]]
    /\ UNCHANGED <<tz, now, referenceDate, rvars, xvars, fvars, cvars, dvars, uuid>>

\* PATCH /api/edit-task, lines 73-81: nothing was modified, is the task there
EditCheck(r) ==
    /\ api[r].op = "edit"
    /\ api[r].pc = "check"
    /\ Answer(r, api[r],
              IF doc.found /\ \E i \in 1..Len(doc.tasks) :
                                  doc.tasks[i].taskId = api[r].taskId
              THEN 200 ELSE 404)
    /\ UNCHANGED <<tz, now, referenceDate, rvars, xvars, fvars, cvars, dvars, doc, uuid>>

SNext ==
    \/ \E r \in 1..MaxApi : GenerateFind(r)
    \/ \E r \in 1..MaxApi : GenerateUpdate(r)
    \/ \E r \in 1..MaxApi : GenerateRespond(r)
    \/ \E r \in 1..MaxApi : DeleteTask(r)
    \/ \E r \in 1..MaxApi : UpdateTask(r)
    \/ \E r \in 1..MaxApi : UpdateCheck(r)
    \/ \E r \in 1..MaxApi : EditTask(r)
    \/ \E r \in 1..MaxApi : EditCheck(r)

SpecStore == SInit /\ [][SNext]_vars

----------------------------------------------------------------------------
(* The dashboard page: the local task list and the pending marks           *)
(*                                                                         *)
(* A handler runs up to its `await fetch` in one step and from the answer  *)
(* to its end in another; between the two the user acts and other answers  *)
(* arrive.  The server is an input: an answer is a success or a failure,   *)
(* and the answers of get-schedule and generate-schedule carry a list.     *)

\* requests the page sends, the first fetch of the schedule among them
MaxSent == 4

\* a task as the page holds it; of its texts the content is kept
Card(k, done, text) == [taskId |-> k, isCompleted |-> done, content |-> text]

\* the lists the server sends for the user
ServerLists ==
    { <<>>,
      << Card(1, FALSE, "Gym") >>,
      << Card(1, FALSE, "Gym"), Card(2, TRUE, "Read") >> }

\* the card of task k is on the page and takes a click: the board is rendered
\* (page, lines 453-475), the edit modal does not cover it, and the card is
\* not pending (TaskCard, lines 46-54)
Clickable(k) ==
    /\ ~isLoadingSchedule
    /\ ~isGenerating
    /\ editingTask = 0
    /\ \E i \in 1..Len(allTasks) : allTasks[i].taskId = k
    /\ pendingTaskActions[k] = "none"

\* the request a handler sends
Sends(kind, k, newStatus, text) ==
    /\ sent < MaxSent
    /\ sent' = sent + 1
    /\ inflight' = inflight \cup
           {[n |-> sent + 1, kind |-> kind, taskId |-> k,
             newStatus |-> newStatus, content |-> text]}

\* the page is mounted for a signed-in user: fetchSchedule has run up to
\* its fetch (lines 117-125)
DInit ==
    /\ RIdle
    /\ CIdle
    /\ SIdle
    /\ allTasks = <<>>
    /\ pendingTaskActions = [k \in 1..2 |-> "none"]
    /\ isGenerating = FALSE
    /\ isLoadingSchedule = TRUE
    /\ editingTask = 0
    /\ inflight = {[n |-> 1, kind |-> "fetch", taskId |-> 0,
                    newStatus |-> FALSE, content |-> ""]}
    /\ sent = 1

\* fetchSchedule, lines 126-144
FetchSettled(q) ==
    /\ q.kind = "fetch"
    /\ \/ \E tasks \in ServerLists : allTasks' = tasks
       \/ allTasks' = <<>>
    /\ isLoadingSchedule' = FALSE
    /\ inflight' = inflight \ {q}
    /\ UNCHANGED <<tz, now, referenceDate, rvars, xvars, fvars, cvars, svars,
                   pendingTaskActions, isGenerating, editingTask, sent>>

\* handleGenerateSchedule, lines 164-175; the form is not under the modal
GenerateSchedule ==
    /\ ~isGenerating
    /\ editingTask = 0
    /\ isGenerating' = TRUE
    /\ pendingTaskActions' = [k \in DOMAIN pendingTaskActions |-> "none"]
    /\ Sends("generate", 0, FALSE, "")
    /\ UNCHANGED <<tz, now, referenceDate, rvars, xvars, fvars, cvars, svars,
                   allTasks, isLoadingSchedule, editingTask>>

\* handleGenerateSchedule, lines 177-192
GenerateSettled(q) ==
    /\ q.kind = "generate"
    /\ \/ \E tasks \in ServerLists : allTasks' = tasks
       \/ UNCHANGED allTasks
    /\ isGenerating' = FALSE
    /\ inflight' = inflight \ {q}
    /\ UNCHANGED <<tz, now, referenceDate, rvars, xvars, fvars, cvars, svars,
                   pendingTaskActions, isLoadingSchedule, editingTask, sent>>

\* TaskCard.handleToggle and handleToggleComplete, lines 196-210
ToggleComplete(k) ==
    /\ Clickable(k)
    /\ pendingTaskActions' = [pendingTaskActions EXCEPT ![k] = "toggle"]
    /\ Sends("toggle", k,
             ~allTasks[CHOOSE i \in 1..Len(allTasks) : allTasks[i].taskId = k].isCompleted,
             "")
    /\ UNCHANGED <<tz, now, referenceDate, rvars, xvars, fvars, cvars, svars,
                   allTasks, isGenerating, isLoadingSchedule, editingTask>>

\* handleToggleComplete, lines 212-235
ToggleSettled(q) ==
    /\ q.kind = "toggle"
    /\ \/ allTasks' = [i \in 1..Len(allTasks) |->
                          IF allTasks[i].taskId = q.taskId
                          THEN [allTasks[i] EXCEPT !.isCompleted = q.newStatus]
                          ELSE allTasks[i]]
       \/ UNCHANGED allTasks
    /\ pendingTaskActions' = [pendingTaskActions EXCEPT ![q.taskId] = "none"]
    /\ inflight' = inflight \ {q}
    /\ UNCHANGED <<tz, now, referenceDate, rvars, xvars, fvars, cvars, svars,
                   isGenerating, isLoadingSchedule, editingTask, sent>>

\* TaskCard.handleDelete and handleDeleteTask, lines 239-259, the user
\* confirming
DeleteTaskClicked(k) ==
    /\ Clickable(k)
    /\ pendingTaskActions' = [pendingTaskActions EXCEPT ![k] = "delete"]
    /\ Sends("delete", k, FALSE, "")
    /\ UNCHANGED <<tz, now, referenceDate, rvars, xvars, fvars, cvars, svars,
                   allTasks, isGenerating, isLoadingSchedule, editingTask>>

\* handleDeleteTask, lines 261-280
DeleteSettled(q) ==
    /\ q.kind = "delete"
    /\ \/ allTasks' = SelectSeq(allTasks, LAMBDA t : t.taskId # q.taskId)
       \/ UNCHANGED allTasks
    /\ pendingTaskActions' = [pendingTaskActions EXCEPT ![q.taskId] = "none"]
    /\ inflight' = inflight \ {q}
    /\ UNCHANGED <<tz, now, referenceDate, rvars, xvars, fvars, cvars, svars,
                   isGenerating, isLoadingSchedule, editingTask, sent>>

\* TaskCard.handleEdit and handleOpenEditModal, lines 284-287
OpenEditModal(k) ==
    /\ Clickable(k)
    /\ editingTask' = k
    /\ UNCHANGED <<tz, now, referenceDate, rvars, xvars, fvars, cvars, svars,
                   allTasks, pendingTaskActions, isGenerating, isLoadingSchedule,
                   inflight, sent>>

\* the modal's Cancel, which is disabled while it saves, and
\* handleCloseEditModal, lines 289-292
CloseEditModal ==
    /\ editingTask # 0
    /\ \A q \in inflight : q.kind # "edit"
    /\ editingTask' = 0
    /\ UNCHANGED <<tz, now, referenceDate, rvars, xvars, fvars, cvars, svars,
                   allTasks, pendingTaskActions, isGenerating, isLoadingSchedule,
                   inflight, sent>>

\* the modal's Save, with a changed content, and handleSaveTask,
\* lines 294-304
SaveTask ==
    /\ editingTask # 0
    /\ \A q \in inflight : q.kind # "edit"
    /\ pendingTaskActions' = [pendingTaskActions EXCEPT ![editingTask] = "edit"]
    /\ Sends("edit", editingTask, FALSE, "Swim")
    /\ UNCHANGED <<tz, now, referenceDate, rvars, xvars, fvars, cvars, svars,
                   allTasks, isGenerating, isLoadingSchedule, editingTask>>

\* handleSaveTask, lines 306-331
SaveSettled(q) ==
    /\ q.kind = "edit"
    /\ \/ /\ allTasks' = [i \in 1..Len(allTasks) |->
                             IF allTasks[i].taskId = q.taskId
                             THEN [allTasks[i] EXCEPT !.content = q.content]
                             ELSE allTasks[i]]
          /\ editingTask' = 0
       \/ UNCHANGED <<allTasks, editingTask>>
    /\ pendingTaskActions' = [pendingTaskActions EXCEPT ![q.taskId] = "none"]
    /\ inflight' = inflight \ {q}
    /\ UNCHANGED <<tz, now, referenceDate, rvars, xvars, fvars, cvars, svars,
                   isGenerating, isLoadingSchedule, sent>>

DNext ==
    \/ \E q \in inflight : FetchSettled(q)
    \/ GenerateSchedule
    \/ \E q \in inflight : GenerateSettled(q)
    \/ \E k \in DOMAIN pendingTaskActions : ToggleComplete(k)
    \/ \E q \in inflight : ToggleSettled(q)
    \/ \E k \in DOMAIN pendingTaskActions : DeleteTaskClicked(k)
    \/ \E q \in inflight : DeleteSettled(q)
    \/ \E k \in DOMAIN pendingTaskActions : OpenEditModal(k)
    \/ CloseEditModal
    \/ SaveTask
    \/ \E q \in inflight : SaveSettled(q)

SpecDash == DInit /\ [][DNext]_vars

----------------------------------------------------------------------------
(* What the labels of the model's inputs mean, read off the labels         *)
(* themselves: the yardstick the resolver's answers are held against.      *)

Missing(v) == v.type \in {"undefined", "null"}

\* weekday index (Sunday = 0) a day label names, letter case aside; -1: none
WeekdayNamed(v) ==
    CASE v = Str(<<"s", "u", "n", "d", "a", "y">>) -> 0
      [] v = Str(<<"M", "o", "n", "d", "a", "y">>) -> 1
      [] v = Str(<<"T", "U", "E", "S", "D", "A", "Y">>) -> 2
      [] v = Str(<<" ", "W", "e", "d", "n", "e", "s", "d", "a", "y", " ">>) -> 3
      [] v = Str(<<"t", "h", "u", "r", "s", "d", "a", "y">>) -> 4
      [] v = Str(<<"F", "r", "i", "d", "a", "y">>) -> 5
      [] v = Str(<<"s", "a", "t", "u", "r", "D", "A", "Y">>) -> 6
      [] OTHER -> -1

\* the calendar day a calendar-valid YYYY-MM-DD label names
IsoNamed(v) ==
    CASE v = Str(<<"2", "0", "2", "5", "-", "0", "4", "-", "1", "2">>) -> [y |-> 2025, m |-> 4, d |-> 12]
      [] v = Str(<<"2", "0", "2", "4", "-", "0", "2", "-", "2", "9">>) -> [y |-> 2024, m |-> 2, d |-> 29]
      [] OTHER -> [y |-> 0, m |-> 0, d |-> 0]

\* minute of the day a label in one of parseSingleTime's formats names; -1: none
SingleNamed(v) ==
    CASE v = Str(<<"9", ":", "0", "0", " ", "A", "M">>) -> 9 * 60
      [] v = Str(<<"9", "A", "M">>) -> 9 * 60
      [] v = Str(<<"1", "4", ":", "3", "0">>) -> 14 * 60 + 30
      [] v = Str(<<"2", ":", "0", "0", " ", "P", "M">>) -> 14 * 60
      [] v = Str(<<"1", "1", ":", "3", "0", " ", "P", "M">>) -> 23 * 60 + 30
      [] v = Str(<<"1", "2", ":", "0", "0", " ", "A", "M">>) -> 0
      [] v = Str(<<"7", ":", "3", "0", " ", "p", "m">>) -> 19 * 60 + 30
      [] v = Str(<<"9", ":", "0", "0">>) -> 9 * 60
      [] OTHER -> -1

\* the two sides of a range label as minutes of the day (-1: the side is no
\* single time); isRange is FALSE for every other label
RangeNamed(v) ==
    CASE v = Str(<<"9", ":", "0", "0", " ", "A", "M", " ", "-", " ", "1", "0", ":", "3", "0", " ", "A", "M">>) -> [isRange |-> TRUE, l |-> 540, r |-> 630]
      [] v = Str(<<"1", ":", "3", "0", " ", "P", "M", "-", "3", ":", "0", "0", " ", "P", "M">>) -> [isRange |-> TRUE, l |-> 810, r |-> 900]
      [] v = Str(<<"5", ":", "0", "0", " ", "P", "M", " ", "-", " ", "3", ":", "0", "0", " ", "P", "M">>) -> [isRange |-> TRUE, l |-> 1020, r |-> 900]
      [] v = Str(<<"2", ":", "0", "0", " ", "P", "M", " ", "-", " ", "3", ":", "3", "0", " ", "P", "M">>) -> [isRange |-> TRUE, l |-> 840, r |-> 930]
      [] v = Str(<<"9", ":", "0", "0", " ", "A", "M", " ", "-", " ", "l", "a", "t", "e">>) -> [isRange |-> TRUE, l |-> 540, r |-> -1]
      [] v = Str(<<"l", "a", "t", "e", " ", "-", " ", "9", ":", "0", "0", " ", "A", "M">>) -> [isRange |-> TRUE, l |-> -1, r |-> 540]
      [] v = Str(<<"9", ":", "0", "0", " ", "A", "M", " ", "-", " ", "1", "0", ":", "0", "0", " ", "A", "M", " ", "-", " ", "1", "1", ":", "0", "0", " ", "A", "M">>) ->
             [isRange |-> TRUE, l |-> 540, r |-> -1]
      [] v = Str(<<"-", " ", "9", ":", "0", "0", " ", "A", "M", " ", "-", " ", "1", "0", ":", "0", "0", " ", "A", "M">>) -> [isRange |-> TRUE, l |-> -1, r |-> -1]
      [] OTHER -> [isRange |-> FALSE, l |-> -1, r |-> -1]

\* weekday of the local calendar day of d, counted from a known Sunday
LocalWeekday(d) == (LocalDay(d) - DaysFromCivil(2025, 4, 6)) % 7

\* the instant that reads `minute` of the day on the local calendar day of d
At(d, minute) == Date(LocalDay(d) * MinutesPerDay + minute - tz, 0)

Called == calls > 0

\* the call resolved the day
DayResolved == Called /\ ~specificDate.threw /\ isValid(specificDate.date)

\* the resolved day
D == specificDate.date

\* what the single-time fallback owes for the whole label on day d
Fallback(v, d) ==
    IF SingleNamed(v) >= 0
    THEN Times(At(d, SingleNamed(v)), At(d, SingleNamed(v) + 60))
    ELSE NoTimes

\* the shapes the single-time parser is said to accept, with the minute of
\* the day each example names
ShapeNamed(v) ==
    CASE v = Str(<<"9", ":", "0", "0", " ", "A", "M">>) -> 9 * 60
      [] v = Str(<<"9", " ", "A", "M">>) -> 9 * 60
      [] v = Str(<<"9", "A", "M">>) -> 9 * 60
      [] v = Str(<<"1", "4", ":", "3", "0">>) -> 14 * 60 + 30
      [] OTHER -> -1

\* the local calendar year of the reference date
RefYear == CivilFromDays(LocalDay(referenceDate)).y

\* the month and day a month-day label names; m = 0: none
MonthDayNamed(v) ==
    CASE v = Str(<<"A", "p", "r", "i", "l", " ", "1", "2">>) -> [m |-> 4, d |-> 12]
      [] v = Str(<<"A", "p", "r", " ", "1", "2">>) -> [m |-> 4, d |-> 12]
      [] v = Str(<<"F", "e", "b", " ", "2", "9">>) -> [m |-> 2, d |-> 29]
      [] OTHER -> [m |-> 0, d |-> 0]

\* day labels that name no day: no label of any kind, a day the calendar does
\* not have, or a month-day the year of the reference date does not have
Unresolvable(v) ==
    \/ v \in {Str(<<"B", "l", "u", "r", "s", "d", "a", "y">>), Str(<<"2", "0", "2", "5", "-", "0", "2", "-", "3", "0">>), Str(<<>>)}
    \/ /\ MonthDayNamed(v).m > 0
       /\ MonthDayNamed(v).d > DaysInMonth(RefYear, MonthDayNamed(v).m)

\* time labels that are empty or missing, or that match no format of the
\* single-time parser and are no range with such a left side
NoTimeNamed(v) ==
    \/ Falsy(v)
    \/ v \in {Str(<<"w", "h", "e", "n", "e", "v", "e", "r">>), Str(<<"2", "5", ":", "0", "0">>), Str(<<"l", "a", "t", "e", " ", "-", " ", "9", ":", "0", "0", " ", "A", "M">>), Str(<<"9", " ", "A", "M">>)}

\* export: a stored task whose day and time labels both name something
Resolvable(t) ==
    /\ t.day \in {Str(<<"M", "o", "n", "d", "a", "y">>), Str(<<"2", "0", "2", "5", "-", "0", "4", "-", "1", "2">>), Str(<<"t", "o", "d", "a", "y">>), Str(<<"t", "o", "m", "o", "r", "r", "o", "w">>)}
    /\ t.time \in {Str(<<"9", ":", "0", "0", " ", "A", "M">>), Str(<<"2", ":", "0", "0", " ", "P", "M", " ", "-", " ", "3", ":", "3", "0", " ", "P", "M">>)}

\* export: the stored tasks the loop has gone through
Seen == IF xpc = "loop" THEN SubSeq(schedule.tasks, 1, idx - 1) ELSE schedule.tasks

\* export: the serializer was invoked
Handed == ics # "notcalled"

\* export: the stored task an event was made from
TaskOf(e) == schedule.tasks[e.uid]

\* the minutes of the day at which a resolvable time label starts and ends
StartNamed(v) == IF RangeNamed(v).isRange THEN RangeNamed(v).l ELSE SingleNamed(v)
EndNamed(v) == IF RangeNamed(v).isRange THEN RangeNamed(v).r ELSE SingleNamed(v) + 60

\* the minute since the epoch that five calendar fields name
MinuteOf(a) == DaysFromCivil(a[1], a[2], a[3]) * MinutesPerDay + a[4] * 60 + a[5]

\* five fields that are a calendar date and a time of day
WellFormed(a) ==
    /\ Len(a) = 5
    /\ a[2] \in 1..12
    /\ a[3] \in 1..DaysInMonth(a[1], a[2])
    /\ a[4] \in 0..23
    /\ a[5] \in 0..59

\* the day a string label names, by the one kind of label it is: a calendar
\* date, a keyword, a weekday name, a month and day; null for any other text
DayNamed(v) ==
    IF IsoNamed(v).y > 0
    THEN Date(DaysFromCivil(IsoNamed(v).y, IsoNamed(v).m, IsoNamed(v).d)
              * MinutesPerDay - tz, 0)
    ELSE IF v \in {Str(<<"t", "o", "d", "a", "y">>), Str(<<"T", "o", "d", "a", "y">>)} THEN referenceDate
    ELSE IF v \in {Str(<<"t", "o", "m", "o", "r", "r", "o", "w">>), Str(<<"T", "O", "M", "O", "R", "R", "O", "W">>)}
    THEN Date(referenceDate.t + MinutesPerDay, referenceDate.sub)
    ELSE IF WeekdayNamed(v) >= 0
    THEN Date(referenceDate.t
              + (((WeekdayNamed(v) - LocalWeekday(referenceDate) + 6) % 7) + 1)
                * MinutesPerDay,
              referenceDate.sub)
    ELSE IF MonthDayNamed(v).m > 0 /\ ~Unresolvable(v)
    THEN Date(DaysFromCivil(RefYear, MonthDayNamed(v).m, MonthDayNamed(v).d)
              * MinutesPerDay - tz, 0)
    ELSE NullDate

----------------------------------------------------------------------------
(* The claims                                                              *)

\* C1: in the export handler, when the stored list holds at least one
\* resolvable task, a malformed task (unparseable, missing or non-string day
\* or time) never aborts the export: the serializer is reached with an event
\* for every resolvable task, and what it returns is the 200 response.
C1_MalformedTaskNeverAborts ==
    (xpc = "done" /\ session /\ \E i \in 1..Len(schedule.tasks) :
                                  Resolvable(schedule.tasks[i]))
    => /\ ics # "notcalled"
       /\ \A i \in 1..Len(schedule.tasks) :
             Resolvable(schedule.tasks[i])
             => \E j \in 1..Len(events) : events[j].uid = schedule.tasks[i].taskId
       /\ ics = "value" => (status = 200 /\ payload = events)

\* C2: parseTaskDateTime never throws, and a task whose day or time is
\* missing (null or undefined) gets {start: null, end: null}.
C2_NeverThrows ==
    Called => /\ ~result.threw
              /\ (Missing(task.day) \/ Missing(task.time)) => result = NoTimes

\* C3: a weekday name, in any letter case, resolves to a date with that
\* weekday lying 1 to 7 days after the reference date, and exactly 7 days
\* after it when the reference date has that weekday already.
C3_NextWeekday ==
    (Called /\ WeekdayNamed(task.day) >= 0)
    => /\ DayResolved
       /\ LocalWeekday(D) = WeekdayNamed(task.day)
       /\ \E k \in 1..7 :
             D = Date(referenceDate.t + k * MinutesPerDay, referenceDate.sub)
       /\ LocalWeekday(referenceDate) = WeekdayNamed(task.day)
             => D = Date(referenceDate.t + 7 * MinutesPerDay, referenceDate.sub)

C3_Witness ==
    /\ Called
    /\ task.day = Str(<<"M", "o", "n", "d", "a", "y">>)
    /\ LocalWeekday(referenceDate) = 1
    /\ D = Date(referenceDate.t + 7 * MinutesPerDay, referenceDate.sub)

\* C4: a calendar-valid YYYY-MM-DD label resolves to that calendar day (its
\* local midnight), whatever the reference date is.
C4_IsoDate ==
    (Called /\ IsoNamed(task.day).y > 0)
    => /\ DayResolved
       /\ D = Date(DaysFromCivil(IsoNamed(task.day).y, IsoNamed(task.day).m,
                                  IsoNamed(task.day).d) * MinutesPerDay - tz, 0)

C4_Witness ==
    /\ DayResolved
    /\ task.day = Str(<<"2", "0", "2", "4", "-", "0", "2", "-", "2", "9">>)
    /\ tz # 0
    /\ CivilFromDays(LocalDay(D)) = [y |-> 2024, m |-> 2, d |-> 29]
    /\ CivilFromDays(LocalDay(referenceDate)).y = 2025

\* C5: "today", in any letter case, resolves to the reference date, and
\* "tomorrow" to the reference date plus exactly one day.
C5_TodayTomorrow ==
    Called
    => /\ task.day \in {Str(<<"t", "o", "d", "a", "y">>), Str(<<"T", "o", "d", "a", "y">>)}
             => specificDate = Found(referenceDate)
       /\ task.day \in {Str(<<"t", "o", "m", "o", "r", "r", "o", "w">>), Str(<<"T", "O", "M", "O", "R", "R", "O", "W">>)}
             => specificDate = Found(Date(referenceDate.t + MinutesPerDay,
                                          referenceDate.sub))

C5_Witness ==
    /\ Called
    /\ task.day = Str(<<"T", "O", "M", "O", "R", "R", "O", "W">>)
    /\ D.t = referenceDate.t + MinutesPerDay
    /\ D.sub = referenceDate.sub
    /\ D.sub > 0

\* C6: every result of parseTaskDateTime that is not {null, null} has its
\* end after its start.
C6_EndAfterStart ==
    (Called /\ ~result.threw /\ (Truthy(result.start) \/ Truthy(result.end)))
    => /\ isValid(result.start)
       /\ isValid(result.end)
       /\ \/ result.end.t > result.start.t
          \/ result.end.t = result.start.t /\ result.end.sub > result.start.sub

C6_Witness ==
    /\ Called
    /\ task.time \in {Str(<<"5", ":", "0", "0", " ", "P", "M", " ", "-", " ", "3", ":", "0", "0", " ", "P", "M">>), Str(<<"1", "1", ":", "3", "0", " ", "P", "M">>)}
    /\ Truthy(result.start)
    /\ result.end.t = result.start.t + 60

\* C7: a range "L - R" whose sides are single times with R later in the day
\* than L resolves, on the resolved day, to start at L and end at R.
C7_RangeOnDay ==
    (DayResolved /\ RangeNamed(task.time).isRange /\ RangeNamed(task.time).l >= 0
        /\ RangeNamed(task.time).r > RangeNamed(task.time).l)
    => result = Times(At(D, RangeNamed(task.time).l), At(D, RangeNamed(task.time).r))

C7_Witness ==
    /\ DayResolved
    /\ task.time = Str(<<"9", ":", "0", "0", " ", "A", "M", " ", "-", " ", "1", "0", ":", "3", "0", " ", "A", "M">>)
    /\ result.start = At(D, 9 * 60)
    /\ result.end.t - result.start.t = 90

\* C8 as stated: one hour from the left time is the result only when the
\* left side parses and the right side does not; when both sides parse and
\* the right time is not later, or the left side does not parse, the result
\* is that of the single-time fallback on the whole string.
C8_OneHourOnlyWhenRightFails ==
    (DayResolved /\ RangeNamed(task.time).isRange)
    => /\ (RangeNamed(task.time).l >= 0 /\ RangeNamed(task.time).r < 0)
             => result = Times(At(D, RangeNamed(task.time).l),
                               At(D, RangeNamed(task.time).l + 60))
       /\ (RangeNamed(task.time).l >= 0 /\ RangeNamed(task.time).r >= 0
              /\ RangeNamed(task.time).r <= RangeNamed(task.time).l)
             => result = Fallback(task.time, D)
       /\ RangeNamed(task.time).l < 0 => result = Fallback(task.time, D)

\* C8 as amended: one hour from the left time is the result whenever the
\* left side parses and the range is no success, that is when the right side
\* does not parse or is not later than the left; only when the left side does
\* not parse does resolution go on to the single-time fallback.
C8_OneHourWheneverLeftParses ==
    (DayResolved /\ RangeNamed(task.time).isRange)
    => /\ (RangeNamed(task.time).l >= 0
              /\ ~(RangeNamed(task.time).r > RangeNamed(task.time).l))
             => result = Times(At(D, RangeNamed(task.time).l),
                               At(D, RangeNamed(task.time).l + 60))
       /\ RangeNamed(task.time).l < 0 => result = Fallback(task.time, D)

C8_Witness ==
    /\ DayResolved
    /\ task.time = Str(<<"5", ":", "0", "0", " ", "P", "M", " ", "-", " ", "3", ":", "0", "0", " ", "P", "M">>)
    /\ result = Times(At(D, 17 * 60), At(D, 18 * 60))

\* C9: a label that parses as a single time T resolves, on the resolved
\* day, to start at T and end exactly 60 minutes later.
C9_SingleTimeOneHour ==
    (DayResolved /\ SingleNamed(task.time) >= 0)
    => /\ result.start = At(D, SingleNamed(task.time))
       /\ result.end = Date(result.start.t + 60, result.start.sub)
       /\ ~result.threw

C9_Witness ==
    /\ DayResolved
    /\ task.time = Str(<<"2", ":", "0", "0", " ", "P", "M">>)
    /\ D.sub > 0
    /\ result.start = At(D, 14 * 60)
    /\ result.end.t = result.start.t + 60

\* C10: the single-time parser accepts "9:00 AM", "9 AM", "9AM" and "14:30"
\* and returns the hour and minute each names.
C10_AcceptedShapes ==
    (DayResolved /\ ShapeNamed(task.time) >= 0)
    => result.start = At(D, ShapeNamed(task.time))

\* C11: when the day label cannot be resolved, parseTaskDateTime returns
\* {start: null, end: null} whatever the time label is, and the time label is
\* not parsed (a time label that would make time parsing throw changes
\* nothing).
C11_UnresolvedDayNullResult ==
    (Called /\ Unresolvable(task.day))
    => /\ specificDate = NoDate
       /\ result = NoTimes

C11_Witness ==
    /\ Called
    /\ task.day = Str(<<"B", "l", "u", "r", "s", "d", "a", "y">>)
    /\ task.time \in {Str(<<"9", ":", "0", "0", " ", "A", "M">>), Num(900)}
    /\ result = NoTimes

\* C12: when the day resolves and the time label is empty, null or
\* undefined, or matches no single-time format and is no range whose left
\* side parses, the result is {start: null, end: null}.
C12_NoTimeNullResult ==
    (DayResolved /\ NoTimeNamed(task.time)) => result = NoTimes

C12_Witness ==
    /\ DayResolved
    /\ task.time \in {Str(<<"w", "h", "e", "n", "e", "v", "e", "r">>), JsNull}
    /\ result = NoTimes

\* C13: the events collected by the export loop, and handed to the
\* serializer, are exactly the tasks gone through whose day and time both
\* resolve: one event per such task, in stored order, with the task's taskId
\* as uid and its content as title, and none for a task that did not resolve.
C13_EventsAreResolvedTasks ==
    (xpc = "loop" \/ Handed)
    => /\ Len(events) = Len(SelectSeq(Seen, Resolvable))
       /\ \A j \in 1..Len(events) :
             /\ events[j].uid = SelectSeq(Seen, Resolvable)[j].taskId
             /\ events[j].title = SelectSeq(Seen, Resolvable)[j].content

C13_Witness ==
    /\ Handed
    /\ Len(schedule.tasks) = 3
    /\ schedule.tasks[2].day = Str(<<"B", "l", "u", "r", "s", "d", "a", "y">>)
    /\ Len(events) = 2
    /\ events[1].uid = 1
    /\ events[2].uid = 3

\* C14: with a session, when there are no stored tasks or none of the stored
\* tasks resolves, the handler answers 404 or 400 and the serializer is not
\* invoked; the answer is never 500 and never 200.
C14_NothingToExport ==
    (xpc = "done" /\ session /\ Len(SelectSeq(schedule.tasks, Resolvable)) = 0)
    => /\ status \in {404, 400}
       /\ ~Handed

\* C15: when the serializer reports an error or returns no payload, which
\* happens only with at least one event, the answer is 500; the answer is 200
\* only when the serializer returned a payload without error.
C15_SerializerFailureIs500 ==
    xpc = "done"
    => /\ ics \in {"error", "empty"} => (status = 500 /\ Len(events) > 0)
       /\ status = 200 => (ics = "value" /\ Len(events) > 0 /\ payload = events)
       /\ Handed => status \notin {400, 404}

C15_Witness ==
    /\ xpc = "done"
    /\ ics = "empty"
    /\ Len(events) > 0
    /\ status = 500

\* C16 as stated: the fields of every event are the wall-clock date and time
\* chosen during resolution: the hour and minute the time label names, on the
\* calendar day the day label names, whatever the server's zone is.
C16_WallClockFields ==
    \A j \in 1..Len(events) :
       /\ events[j].start[4] * 60 + events[j].start[5] = StartNamed(TaskOf(events[j]).time)
       /\ events[j].end[4] * 60 + events[j].end[5] = EndNamed(TaskOf(events[j]).time)
       /\ IsoNamed(TaskOf(events[j]).day).y > 0
            => SubSeq(events[j].start, 1, 3) =
                 <<IsoNamed(TaskOf(events[j]).day).y, IsoNamed(TaskOf(events[j]).day).m,
                   IsoNamed(TaskOf(events[j]).day).d>>

\* C16 as amended: the fields of every event are the UTC fields of the
\* resolved instant, that is the wall-clock time chosen during resolution in
\* the server's zone moved by the server's offset from UTC; they are the
\* wall-clock numbers only when that offset is zero.
C16_FieldsShiftedToUTC ==
    \A j \in 1..Len(events) :
       /\ WellFormed(events[j].start)
       /\ WellFormed(events[j].end)
       /\ events[j].start[4] * 60 + events[j].start[5]
            = (StartNamed(TaskOf(events[j]).time) - tz) % MinutesPerDay
       /\ MinuteOf(events[j].end) - MinuteOf(events[j].start)
            = EndNamed(TaskOf(events[j]).time) - StartNamed(TaskOf(events[j]).time)
       /\ IsoNamed(TaskOf(events[j]).day).y > 0
            => MinuteOf(events[j].start) =
                 DaysFromCivil(IsoNamed(TaskOf(events[j]).day).y,
                               IsoNamed(TaskOf(events[j]).day).m,
                               IsoNamed(TaskOf(events[j]).day).d) * MinutesPerDay
                 + StartNamed(TaskOf(events[j]).time) - tz

C16_Witness ==
    /\ tz = -300
    /\ \E j \in 1..Len(events) :
          /\ TaskOf(events[j]).time = Str(<<"2", ":", "0", "0", " ", "P", "M", " ", "-", " ", "3", ":", "3", "0", " ", "P", "M">>)
          /\ events[j].start = <<2025, 4, 12, 19, 0>>
          /\ events[j].end = <<2025, 4, 12, 20, 30>>

\* C17: for a valid instant formatForICS returns the five fields [UTC year,
\* UTC month counted from 1, UTC day of the month, UTC hour, UTC minute] of
\* the instant, whatever the server's zone (2025-04-12T09:00Z gives
\* [2025, 4, 12, 9, 0]), and for null or an Invalid Date it returns null.
C17_UTCArray ==
    fpc = "done"
    => /\ icsDate.kind = "date"
            => (WellFormed(icsFields) /\ MinuteOf(icsFields) = icsDate.t)
       /\ icsDate.kind # "date" => icsFields = NoArray
       /\ icsDate.t = DaysFromCivil(2025, 4, 12) * MinutesPerDay + 9 * 60
            => icsFields = <<2025, 4, 12, 9, 0>>

C17_Witness ==
    /\ fpc = "done"
    /\ tz # 0
    /\ icsDate.kind = "date"
    /\ icsDate.sub > 0
    /\ icsFields = <<2025, 4, 12, 9, 0>>

\* C18: two calls of parseTaskDateTime with the same day label, time label
\* and reference date return the same start and end, whatever the system
\* clock reads at each call.
C18_Deterministic ==
    [][(calls = 1 /\ calls' = 2) => result' = result]_vars

\* C19: a call of parseTaskDateTime leaves its inputs as they were: the
\* reference date denotes the same instant after the call, also for the day
\* label "today", where the resolved day is the reference date itself, and
\* the task's fields are unchanged.
C19_InputsUnchanged ==
    [][calls' = calls + 1 => (referenceDate' = referenceDate /\ task' = task)]_vars

C19_Witness ==
    /\ Called
    /\ DayObject(task.day) = "referenceDate"
    /\ D = referenceDate
    /\ Truthy(result.start)
    /\ result.start # referenceDate

\* C20: a label "<full month name> <day>" or "<abbreviated month name> <day>"
\* that names a day the year of the reference date has resolves to that
\* month and day in that year (its local midnight).
C20_MonthDayInReferenceYear ==
    (Called /\ MonthDayNamed(task.day).m > 0
        /\ MonthDayNamed(task.day).d <= DaysInMonth(RefYear, MonthDayNamed(task.day).m))
    => /\ DayResolved
       /\ D = Date(DaysFromCivil(RefYear, MonthDayNamed(task.day).m,
                                  MonthDayNamed(task.day).d) * MinutesPerDay - tz, 0)

C20_Witness ==
    /\ DayResolved
    /\ task.day \in {Str(<<"A", "p", "r", " ", "1", "2">>), Str(<<"F", "e", "b", " ", "2", "9">>)}
    /\ RefYear = 2024
    /\ CivilFromDays(LocalDay(D)).y = 2024
    /\ CivilFromDays(LocalDay(now)).y # 2024
    /\ D.sub = 0

\* C21: day resolution returns what the first matching strategy gives, in
\* the order calendar date, keyword, weekday name, month and day, and null
\* when none matches; a label shaped YYYY-MM-DD that is no calendar date
\* (2025-02-30) is not returned by the first step and resolves to null.
C21_FirstStrategy ==
    (Called /\ IsString(task.day))
    => /\ specificDate = Found(DayNamed(task.day))
       /\ task.day = Str(<<"2", "0", "2", "5", "-", "0", "2", "-", "3", "0">>) => specificDate = NoDate

C21_Witness ==
    /\ Called
    /\ task.day = Str(<<"2", "0", "2", "5", "-", "0", "2", "-", "3", "0">>)
    /\ specificDate = NoDate
    /\ result = NoTimes

\* C22: a time label with several dashes is split at its first dash: with
\* a left part that parses and a right part (holding the other dashes) that
\* does not, the result is the left time and one hour; a label that begins
\* with a dash has no left part that parses and resolves to null.
C22_SplitAtFirstDash ==
    DayResolved
    => /\ task.time = Str(<<"9", ":", "0", "0", " ", "A", "M", " ", "-", " ", "1", "0", ":", "0", "0", " ", "A", "M", " ", "-", " ", "1", "1", ":", "0", "0", " ", "A", "M">>)
            => result = Times(At(D, 9 * 60), At(D, 10 * 60))
       /\ task.time = Str(<<"-", " ", "9", ":", "0", "0", " ", "A", "M", " ", "-", " ", "1", "0", ":", "0", "0", " ", "A", "M">>) => result = NoTimes

C22_Witness ==
    /\ DayResolved
    /\ task.time = Str(<<"9", ":", "0", "0", " ", "A", "M", " ", "-", " ", "1", "0", ":", "0", "0", " ", "A", "M", " ", "-", " ", "1", "1", ":", "0", "0", " ", "A", "M">>)
    /\ result.start = At(D, 9 * 60)
    /\ result.end = At(D, 10 * 60)

\* C23: every non-null start lies on the calendar day that day resolution
\* produced, reads the hour and minute the time label names, and has zero
\* seconds and milliseconds, also when the resolved day carries the
\* reference date's own time of day.
C23_StartOnResolvedDay ==
    (DayResolved /\ ~result.threw /\ Truthy(result.start))
    => /\ isValid(result.start)
       /\ LocalDay(result.start) = LocalDay(D)
       /\ result.start.sub = 0
       /\ StartNamed(task.time) >= 0
            => LocalMinutes(result.start) % MinutesPerDay = StartNamed(task.time)

C23_Witness ==
    /\ DayResolved
    /\ task.day \in {Str(<<"t", "o", "d", "a", "y">>), Str(<<"F", "r", "i", "d", "a", "y">>)}
    /\ task.time = Str(<<"1", "1", ":", "3", "0", " ", "P", "M">>)
    /\ tz # 0
    /\ D.sub > 0
    /\ LocalMinutes(D) % MinutesPerDay # 0
    /\ result.start.sub = 0
    /\ LocalDay(result.start) = LocalDay(D)

\* C24: every result of parseTaskDateTime has start and end both null or
\* both non-null.
C24_BothOrNeither ==
    (Called /\ ~result.threw)
    => (result.start = NullDate <=> result.end = NullDate)

C24_Witness ==
    /\ Called
    /\ task.time = Str(<<"9", ":", "0", "0", " ", "A", "M", " ", "-", " ", "l", "a", "t", "e">>)
    /\ result.start # NullDate
    /\ result.end # NullDate

----------------------------------------------------------------------------
(* The chat rate limit                                                     *)

\* C25: of the user's requests on /api/chat, interleaved in any way, at most
\* five pass the rate check within ten minutes: the sixth pass after any pass
\* comes ten minutes later or more.
C25_AtMostFivePerWindow ==
    \A i \in 1..Len(passed) :
        i + RATE_LIMIT_COUNT <= Len(passed) =>
            passed[i + RATE_LIMIT_COUNT] - passed[i] >= RATE_LIMIT_WINDOW_MINUTES

----------------------------------------------------------------------------
(* The stored task list                                                    *)

\* the ids of the tasks of a list
IdsOf(tasks) == { tasks[i].taskId : i \in 1..Len(tasks) }

\* the ids a request of the user has deleted
Deleted ==
    { api[r].taskId : r \in { q \in DOMAIN api : /\ api[q].op = "delete"
                                                 /\ api[q].status = 200 } }

\* the ids of the tasks a generate request has written to the store
Added ==
    UNION { IdsOf(api[r].newTasks) :
              r \in { q \in DOMAIN api : /\ api[q].op = "generate"
                                         /\ api[q].pc \in {"final", "done"} } }

\* C26: whatever the interleaving of the user's generate, delete, update and
\* edit requests, a task that a generate request has added stays in the stored
\* list until a request deletes it, and a task that a request has deleted is
\* not in the stored list again.
C26_NothingLostNothingBack ==
    /\ Added \ Deleted \subseteq IdsOf(doc.tasks)
    /\ Deleted \cap IdsOf(doc.tasks) = {}

\* request r takes its first step, as a request of kind op that the handler
\* did not turn away with 400 or 401
Writes(r, op) ==
    /\ api[r].pc = "idle"
    /\ api'[r].op = op
    /\ api'[r].status \notin {400, 401}

\* request r takes its first step and is turned away with 400 or 401
TurnedAway(r, op) ==
    /\ api[r].pc = "idle"
    /\ api'[r].op = op
    /\ api'[r].status \in {400, 401}

\* request r of kind op gets its answer from the look-up that follows an
\* update which modified nothing
LooksUp(r, op) ==
    /\ api[r].op = op
    /\ api[r].pc = "check"
    /\ api'[r].pc = "done"

\* the list has the same tasks in the same places, and they differ at most
\* in the fields `keys` of the tasks with the id `taskId`
SameBut(before, after, taskId, keys) ==
    /\ Len(after) = Len(before)
    /\ \A i \in 1..Len(before) :
           IF before[i].taskId = taskId
           THEN \A key \in DOMAIN before[i] \ keys : after[i][key] = before[i][key]
           ELSE after[i] = before[i]

\* no request of the user removes tasks or writes the list anew
NoneRemoves == \A r \in DOMAIN api : api[r].op \in {"none", "update", "edit"}

\* C27: an update-task request changes nothing but the isCompleted field of
\* the tasks with its taskId, which it sets to the value asked for; when the
\* task already has that value the stored list is left as it was and the
\* answer is 200, so that the same request made twice gives the same state and
\* the same status; without a schedule, or without a task of that id, the
\* answer is 404 and nothing changes.
C27_UpdateIdempotent ==
    /\ [][\A r \in DOMAIN api :
            /\ TurnedAway(r, "update") => doc' = doc
            /\ Writes(r, "update") =>
                 /\ doc'.found = doc.found
                 /\ SameBut(doc.tasks, doc'.tasks, api'[r].taskId, {"isCompleted"})
                 /\ \A i \in 1..Len(doc.tasks) :
                        doc.tasks[i].taskId = api'[r].taskId =>
                            doc'.tasks[i].isCompleted = api'[r].isCompleted
                 /\ doc' # doc => api'[r].status = 200
                 /\ ~doc.found => api'[r].status = 404
                 /\ (doc.found /\ doc' = doc) => api'[r].pc = "check"
            /\ LooksUp(r, "update") =>
                 /\ doc' = doc
                 /\ api'[r].status =
                        IF api[r].taskId \in IdsOf(doc.tasks) THEN 200 ELSE 404]_vars
    /\ [](NoneRemoves =>
            \A r, q \in DOMAIN api :
                (/\ api[r].op = "update" /\ api[q].op = "update"
                 /\ api[r].pc = "done" /\ api[q].pc = "done"
                 /\ api[r].taskId = api[q].taskId
                 /\ api[r].isCompleted = api[q].isCompleted)
                => api[r].status = api[q].status)

\* the same request, for the value task 1 already has, was made twice
C27_Witness ==
    /\ \A r \in DOMAIN api :
           /\ api[r].op = "update"
           /\ api[r].pc = "done"
           /\ api[r].taskId = 1
           /\ api[r].isCompleted = Bool(FALSE)
           /\ api[r].status = 200
    /\ doc \in StoredDocs
    /\ Len(doc.tasks) = 2

\* the tasks of a list whose id is not taskId, in their order
RECURSIVE Others(_, _)
Others(tasks, taskId) ==
    IF tasks = <<>> THEN <<>>
    ELSE IF Head(tasks).taskId = taskId THEN Others(Tail(tasks), taskId)
    ELSE <<Head(tasks)>> \o Others(Tail(tasks), taskId)

\* C28: a delete-task request removes the tasks with its taskId and leaves the
\* other tasks as they are and in their order; it is answered 404, the list
\* unchanged, when no task has that id, as after an earlier delete of that id.
C28_DeleteExactlyThatTask ==
    [][\A r \in DOMAIN api :
          /\ TurnedAway(r, "delete") => doc' = doc
          /\ Writes(r, "delete") =>
               /\ doc'.found = doc.found
               /\ doc'.tasks = Others(doc.tasks, api'[r].taskId)
               /\ api'[r].pc = "done"
               /\ api'[r].status =
                      IF api'[r].taskId \in IdsOf(doc.tasks) THEN 200 ELSE 404
               /\ api'[r].status = 404 => doc' = doc]_vars

\* task 1 was deleted, and deleted again
C28_Witness ==
    /\ \E r, q \in DOMAIN api :
           /\ api[r].op = "delete" /\ api[r].taskId = 1 /\ api[r].status = 200
           /\ api[q].op = "delete" /\ api[q].taskId = 1 /\ api[q].status = 404
    /\ IdsOf(doc.tasks) = {2}

\* what the edit-task handler accepts for a key of `updates`
Accepted(key, value) ==
    IF key = "notes"
    THEN value.type \in {"null", "string"}
    ELSE /\ key \in {"content", "day", "time"}
         /\ value.type = "string"
         /\ notWhitespace(value.chars)

\* C29: an edit-task request changes nothing but content, day, time and notes
\* of the tasks with its taskId; each of these fields either keeps its value
\* or takes the value `updates` gives it, which for content, day and time is a
\* string that is not empty; the keys `updates` must not carry, and the values
\* it must not give, are passed over; when nothing is left the answer is 400
\* and the store is not written.
C29_EditOnlyAllowedFields ==
    [][\A r \in DOMAIN api :
          /\ TurnedAway(r, "edit") => doc' = doc
          /\ (api[r].pc = "idle" /\ api'[r].op = "edit" /\ api'[r].status # 401) =>
               (api'[r].status = 400 <=>
                   \/ api'[r].taskId = 0
                   \/ \A key \in DOMAIN api'[r].updates :
                          \/ api'[r].updates[key] = Undefined
                          \/ ~Accepted(key, api'[r].updates[key]))
          /\ Writes(r, "edit") =>
               /\ doc'.found = doc.found
               /\ SameBut(doc.tasks, doc'.tasks, api'[r].taskId,
                          {"content", "day", "time", "notes"})
               /\ \A i \in 1..Len(doc.tasks) :
                      doc.tasks[i].taskId = api'[r].taskId =>
                          \A key \in {"content", "day", "time", "notes"} :
                              doc'.tasks[i][key] =
                                  IF /\ api'[r].updates[key] # Undefined
                                     /\ Accepted(key, api'[r].updates[key])
                                  THEN api'[r].updates[key]
                                  ELSE doc.tasks[i][key]
               /\ \A i \in 1..Len(doc'.tasks) :
                      \A key \in {"content", "day", "time"} :
                          /\ doc'.tasks[i][key].type = "string"
                          /\ doc'.tasks[i][key].chars # <<>>]_vars

\* one request gave notes, isCompleted and taskId and changed the notes of
\* task 1 alone; another gave nothing the handler accepts
C29_Witness ==
    \E r, q \in DOMAIN api :
        /\ api[r].op = "edit" /\ api[r].taskId = 1 /\ api[r].status = 200
        /\ api[r].updates.isCompleted = Bool(TRUE)
        /\ api[r].updates.notes = Str(<<>>)
        /\ IdsOf(doc.tasks) = {1, 2}
        /\ doc.tasks[1].notes = Str(<<>>)
        /\ doc.tasks[1].isCompleted = Bool(FALSE)
        /\ api[q].op = "edit" /\ api[q].taskId = 2 /\ api[q].status = 400
        /\ api[q].updates.content = Str(<<>>)

----------------------------------------------------------------------------
(* The dashboard's pending marks                                           *)

\* C30: as long as a toggle, delete or edit request on a task is in flight
\* the task is marked pending, whatever the interleaving with the generation
\* of a schedule and the first fetch; no second request on the task is then
\* in flight beside it.
C30_PendingWhileInFlight ==
    /\ \A q \in inflight :
           q.kind \in {"toggle", "delete", "edit"} =>
               pendingTaskActions[q.taskId] # "none"
    /\ \A q, p \in inflight :
           (q.taskId = p.taskId /\ q.taskId # 0) => q = p

=============================================================================
